---------------------------- MODULE Spec2Model ----------------------------
(***************************************************************************)
(* Job-event ingestion engine of the chat demo client:                     *)
(*   - the Job Run Controller (hook useChatJobEvents: submitPrompt, reset, *)
(*     pollOnce, the 2000 ms poll interval, cleanup);                      *)
(*   - the Job Event Subscription Loop (subscribeToJobEvents: poll,        *)
(*     markConnected, emitFromResponse, parseSseText, parseEventPayload);  *)
(*   - the backend as the environment: job-create, status reads and the    *)
(*     events endpoint.                                                    *)
(* Every await of the code is a suspension point: the code between two     *)
(* awaits runs in one task of the JavaScript event loop and is one action. *)
(***************************************************************************)
EXTENDS Integers, Sequences, FiniteSets, TLC

\* ------------------------------------------------------------------ bounds
MaxRuns == 2       \* calls of submitPrompt with a non-blank prompt
MaxInflight == 2   \* timer-driven status reads of one run in flight at once
MaxEvents == 2     \* events the backend produces for one job
MaxSubs == 2       \* subscriptions opened in one behaviour
MaxPolls == 2      \* answered events requests of a subscription whose history is kept
MaxFrames == 2     \* frames of a generated SSE body
MaxItems == 2      \* elements of a generated JSON array

Runs == 1..MaxRuns

\* ------------------------------------------------------------ wire values
\* A JSON object is a function from its keys to values; an absent key is
\* not in the domain.  Texts (message, token, assistant text) are sequences
\* of chunks, "" being << >>; a stepId is its sequence of ':'-separated
\* segments.
Has(obj, key) == key \in DOMAIN obj
NoError == << >>
NoCursor == ""
Absent == "<undefined>"

\* JavaScript truthiness of an optional string and of a text.
Truthy(str) == str # "" /\ str # Absent
NonEmpty(text) == text # << >>

\* String.prototype.toLowerCase on the status strings the backend is drawn from.
ToLowerCase(s) ==
  CASE s = "Running"   -> "running"
    [] s = "EXECUTING" -> "executing"
    [] s = "SUCCESS"   -> "success"
    [] s = "Failed"    -> "failed"
    [] s = "Weird-Status" -> "weird-status"
    [] OTHER -> s

\* String.prototype.trim on a prompt given as its sequence of characters.
RECURSIVE TrimStart(_)
TrimStart(cs) == IF cs # << >> /\ Head(cs) = " " THEN TrimStart(Tail(cs)) ELSE cs
RECURSIVE TrimEnd(_)
TrimEnd(cs) ==
  IF cs # << >> /\ cs[Len(cs)] = " " THEN TrimEnd(SubSeq(cs, 1, Len(cs) - 1)) ELSE cs
\* A prompt taken as typed.
Untrimmed(cs) == cs

Trim(cs) == TrimEnd(TrimStart(cs))

Prompts == {<< >>, <<" ">>, <<"h">>, <<" ", "h">>}

\* ------------------------------------------------------------------ state
VARIABLES
  status,                 \* useState: ChatRunStatus
  jobId,                  \* useState: job id, 0 for null
  error,                  \* useState: error message, NoError for null
  tokenEvents,            \* useState: number of token events
  eventsConnectionStatus, \* useState
  events,                 \* useState: JobEvent[] (the event log)
  messages,               \* useChat: the transcript
  assistantIdRef,         \* useRef: id of the live placeholder, 0 for null
  abortRef,               \* useRef: the subscription's cancel function, 0 for null
  pollRef,                \* useRef: id of the interval timer, 0 for null
  connectedRef,           \* useRef
  nruns,                  \* submitPrompt invocations that started a run
  pc,                     \* per run: where its async submitPrompt is suspended
  timers,                 \* interval timers scheduled in the window (by run)
  inflight,               \* per run: timer-driven status reads in flight
  subs,                   \* subscribeToJobEvents closures, in creation order
  afterReset,             \* history: reset() ran and no run was started since
  calls,                  \* history, per subscription: callbacks it invoked
  delivered,              \* history, per subscription: events given to onEvent
  failures,               \* history, per subscription: messages given to onError
  received,               \* history, per subscription: response statuses it got
  bodies,                 \* history, per subscription: bodies it read
  decodes,                \* history, per subscription: what each decoded body did
  backend,                \* the job at the backend, where a specification follows it
  stamps                  \* the run's timestamps and the clock that gives them

vars == <<status, jobId, error, tokenEvents, eventsConnectionStatus, events,
          messages, assistantIdRef, abortRef, pollRef, connectedRef, nruns, pc,
          timers, inflight, subs, afterReset, calls, delivered,
          failures, received, bodies, decodes, backend, stamps>>

hookVars == <<status, jobId, error, tokenEvents, eventsConnectionStatus, events,
              messages, assistantIdRef, abortRef, pollRef, connectedRef, timers, subs,
              calls, delivered, failures>>

\* The hook's state, refs, timers and subscriptions (with the record of the
\* callbacks they invoked) as one record, so that a handler is the
\* composition of the functions it calls.
Cur ==
  [status |-> status, jobId |-> jobId, error |-> error, tokenEvents |-> tokenEvents,
   eventsConnectionStatus |-> eventsConnectionStatus, events |-> events,
   messages |-> messages, assistantIdRef |-> assistantIdRef, abortRef |-> abortRef,
   pollRef |-> pollRef, connectedRef |-> connectedRef, timers |-> timers, subs |-> subs,
   calls |-> calls, delivered |-> delivered, failures |-> failures]

Commit(h) ==
  /\ status' = h.status
  /\ jobId' = h.jobId
  /\ error' = h.error
  /\ tokenEvents' = h.tokenEvents
  /\ eventsConnectionStatus' = h.eventsConnectionStatus
  /\ events' = h.events
  /\ messages' = h.messages
  /\ assistantIdRef' = h.assistantIdRef
  /\ abortRef' = h.abortRef
  /\ pollRef' = h.pollRef
  /\ connectedRef' = h.connectedRef
  /\ timers' = h.timers
  /\ subs' = h.subs
  /\ calls' = h.calls
  /\ delivered' = h.delivered
  /\ failures' = h.failures

\* ------------------------------------------------------------- event kinds
\* @/types/events is not part of the sources: the chat-token test and the
\* token text follow the specification (kind chatToken for the stepId prefixes
\* chat:token and chat:tokens; the token is the event's message), and so do
\* the kinds: by prefix of the stepId, case-sensitive, the first match winning.
isChatTokenEvent(event) ==
  /\ Len(event.step_id) >= 2
  /\ event.step_id[1] = "chat"
  /\ event.step_id[2] \in {"token", "tokens"}

getChatTokenText(event) == event.message

\* A segment that starts with "task-".
TaskSegments == {"task-1", "task-2"}

getEventType(stepId) ==
  IF Len(stepId) < 2 THEN "unknown"
  ELSE IF stepId[1] = "workflow" THEN "workflow"
  ELSE IF stepId[1] = "phase" THEN "phase"
  ELSE IF stepId[1] = "agent" /\ \E i \in 2..Len(stepId) : stepId[i] \in TaskSegments
    THEN "task"
  ELSE IF stepId[1] = "agent" THEN "agent"
  ELSE IF stepId[1] = "chat" /\ stepId[2] \in {"token", "tokens"} THEN "chatToken"
  ELSE IF stepId[1] = "chat" /\ stepId[2] \in {"request", "response", "complete"}
    THEN "chatLifecycle"
  ELSE "unknown"

\* ------------------------------------------------------- the hook's helpers
UserMessage(run, text) ==
  [id |-> 0 - run, role |-> "user", text |-> text, state |-> "done"]

\* buildAssistantMessage: an empty text part in state 'streaming'.
buildAssistantMessage(id) ==
  [id |-> id, role |-> "assistant", text |-> << >>, state |-> "streaming"]

\* cleanup(): cancel the subscription abortRef holds, clear the interval
\* pollRef holds, forget that a subscription was opened.
cleanup(h) ==
  [h EXCEPT
     !.subs = IF h.abortRef # 0
              THEN [h.subs EXCEPT ![h.abortRef].aborted = TRUE,
                                  ![h.abortRef].cancels = @ + 1]
              ELSE h.subs,
     !.abortRef = 0,
     !.timers = IF h.pollRef # 0 THEN h.timers \ {h.pollRef} ELSE h.timers,
     !.pollRef = 0,
     !.connectedRef = FALSE]

\* finalizeAssistant(): the text part of the message assistantIdRef names
\* goes to state 'done'.
finalizeAssistant(h) ==
  IF h.assistantIdRef = 0 THEN h
  ELSE [h EXCEPT !.messages =
          [i \in DOMAIN h.messages |->
             IF h.messages[i].id # h.assistantIdRef THEN h.messages[i]
             ELSE [h.messages[i] EXCEPT !.state = "done"]]]

\* appendAssistantChunk(chunk): the message assistantIdRef names gets one
\* text part, the old text followed by the chunk, in state 'streaming'.
appendAssistantChunk(h, chunk) ==
  IF h.assistantIdRef = 0 THEN h
  ELSE [h EXCEPT !.messages =
          [i \in DOMAIN h.messages |->
             IF h.messages[i].id # h.assistantIdRef THEN h.messages[i]
             ELSE [h.messages[i] EXCEPT !.text = @ \o chunk, !.state = "streaming"]]]

\* An onEvent that renders chat tokens whatever their finished flag.
onEventFinishedToo(h, event) ==
  LET logged == [h EXCEPT !.events = Append(@, event)]
      token == getChatTokenText(event)
  IN IF isChatTokenEvent(event) /\ NonEmpty(token)
     THEN appendAssistantChunk([logged EXCEPT !.tokenEvents = @ + 1], token)
     ELSE logged

\* An onEvent that logs the events it does not render as tokens.
onEventTokensUnlogged(h, event) ==
  LET token == getChatTokenText(event)
  IN IF isChatTokenEvent(event) /\ ~event.finished /\ NonEmpty(token)
     THEN appendAssistantChunk([h EXCEPT !.tokenEvents = @ + 1], token)
     ELSE [h EXCEPT !.events = Append(@, event)]

\* The three callbacks pollOnce hands to subscribeToJobEvents.
onEvent(h, event) ==
  LET logged == [h EXCEPT !.events = Append(@, event)]
      token == getChatTokenText(event)
  IN IF isChatTokenEvent(event) /\ ~event.finished /\ NonEmpty(token)
     THEN appendAssistantChunk([logged EXCEPT !.tokenEvents = @ + 1], token)
     ELSE logged

onFirstConnect(h) == [h EXCEPT !.eventsConnectionStatus = "connected"]

onFatalError(h, message) ==
  finalizeAssistant([h EXCEPT !.eventsConnectionStatus = "error",
                              !.error = message,
                              !.status = "error"])

\* subscribeToJobEvents up to its first await: a fresh closure whose loop has
\* issued its first events request; the cancel function is the closure's index.
NewSubscription(job) ==
  [job |-> job, aborted |-> FALSE, cancels |-> 0, hasConnected |-> FALSE,
   lastSeqId |-> NoCursor, at |-> "fetch", code |-> "", polls |-> 1]

terminalSuccess == {"success", "complete", "succeeded"}
terminalError == {"error", "failed"}
nonTerminal == {"scheduled", "pending", "running", "executing"}

\* The status compared as the backend wrote it.
NormalizedCaseKept(job) == IF Truthy(job.status) THEN job.status ELSE ""

Normalized(job) == ToLowerCase(IF Truthy(job.status) THEN job.status ELSE "")

OpensSubscription(h, job) ==
  Normalized(job) \in {"running", "executing"} /\ ~h.connectedRef

\* pollOnce after its await of readJob, for the run whose job is createdJobId.
pollOnce(h, createdJobId, job) ==
  LET normalized == Normalized(job)
      opened ==
        IF OpensSubscription(h, job)
        THEN [h EXCEPT !.connectedRef = TRUE,
                       !.status = "streaming",
                       !.eventsConnectionStatus = "querying",
                       !.subs = Append(@, NewSubscription(createdJobId)),
                       !.abortRef = Len(h.subs) + 1]
        ELSE h
  IN IF normalized \in terminalSuccess
       THEN [finalizeAssistant(cleanup(opened)) EXCEPT !.status = "success"]
     ELSE IF normalized \in terminalError
       THEN [finalizeAssistant(cleanup(opened)) EXCEPT
               !.status = "error",
               !.error = IF Truthy(job.errorMessage) THEN <<job.errorMessage>>
                         ELSE <<"Chat job ", normalized>>]
     ELSE IF normalized \notin nonTerminal
       THEN [finalizeAssistant(cleanup(opened)) EXCEPT
               !.status = "error",
               !.error = <<"Unexpected job status: ",
                           IF Truthy(normalized) THEN normalized ELSE "unknown">>]
     ELSE opened

\* The catch of the interval callback: setError, setStatus, cleanup, finalize.
pollFailed(h, message) ==
  finalizeAssistant(cleanup([h EXCEPT !.error = message, !.status = "error"]))

\* The catch of submitPrompt: cleanup, finalize, setError, setStatus.
submitFailed(h, message) ==
  [finalizeAssistant(cleanup(h)) EXCEPT !.error = message, !.status = "error"]

\* readJob: the JSON object of a 2xx response as a JobRead.
FirstPresent(data, keys) ==
  IF keys = << >> THEN Absent
  ELSE IF Has(data, keys[1]) THEN data[keys[1]]
  ELSE IF Len(keys) >= 2 /\ Has(data, keys[2]) THEN data[keys[2]]
  ELSE IF Len(keys) >= 3 /\ Has(data, keys[3]) THEN data[keys[3]]
  ELSE Absent

readJob(data) ==
  [status |-> IF Has(data, "status") THEN data["status"] ELSE "unknown",
   errorMessage |-> FirstPresent(data, <<"error-message", "error_message", "errorMessage">>)]


\* ------------------------------------------------------- the wire decoder
\* JSON values are tagged: an object carries the function from its keys, an
\* array its items.
JObj(f) == [t |-> "object", obj |-> f]
JArr(items) == [t |-> "array", items |-> items]
JNull == [t |-> "null"]

HasKey(v, key) == v.t = "object" /\ key \in DOMAIN v.obj

IdKeys == {"eventID", "EventID", "SeqID", "seqId"}
KeyOrder == <<"SeqID", "seqId", "eventID", "EventID", "step_id", "stepId", "step-id",
              "message", "msg", "finished", "Finished", "events", "items", "data">>

RECURSIVE Flatten(_)
Flatten(seqs) == IF seqs = << >> THEN << >> ELSE Head(seqs) \o Flatten(Tail(seqs))

\* JSON.stringify as a text: the keys and values in a fixed key order.
RECURSIVE Stringify(_)
Stringify(v) ==
  CASE v.t = "null" -> <<"null">>
    [] v.t = "array" ->
         <<"[">> \o Flatten([i \in DOMAIN v.items |-> Stringify(v.items[i])]) \o <<"]">>
    [] v.t = "object" ->
         <<"{">> \o
         Flatten([i \in DOMAIN KeyOrder |->
           LET key == KeyOrder[i] IN
           IF key \notin DOMAIN v.obj THEN << >>
           ELSE <<key>> \o
                (CASE key \in IdKeys -> <<v.obj[key]>>
                   [] key \in {"finished", "Finished"} ->
                        <<IF v.obj[key] THEN "true" ELSE "false">>
                   [] key \in {"events", "items", "data"} -> Stringify(v.obj[key])
                   [] OTHER -> v.obj[key])]) \o <<"}">>

\* The value of a key as a stepId candidate: an id is a one-segment stepId.
StepIdAt(v, key) ==
  IF ~HasKey(v, key) THEN << >>
  ELSE IF key \in IdKeys THEN (IF v.obj[key] = "" THEN << >> ELSE <<v.obj[key]>>)
  ELSE v.obj[key]

RECURSIVE FirstNonEmpty(_, _)
FirstNonEmpty(candidates, default) ==
  IF candidates = << >> THEN default
  ELSE IF Head(candidates) # << >> THEN Head(candidates)
  ELSE FirstNonEmpty(Tail(candidates), default)

\* parseEventPayload that takes the kind from the record's step_id field only.
RecordEventKindOfField(record, fallback) ==
  [step_id |-> FirstNonEmpty(<<StepIdAt(record, "step_id"), StepIdAt(record, "stepId"),
                               StepIdAt(record, "SeqID"), StepIdAt(fallback, "SeqID")>>,
                             <<"unknown">>),
   message |-> IF HasKey(record, "message") THEN record.obj["message"]
               ELSE IF HasKey(record, "msg") THEN record.obj["msg"]
               ELSE << >>,
   finished |-> FALSE,
   type |-> getEventType(StepIdAt(record, "step_id"))]

\* parseEventPayload that asks the fallback context before the record.
RecordEventContextFirst(record, fallback) ==
  LET stepId ==
        FirstNonEmpty(
          <<StepIdAt(fallback, "eventID"), StepIdAt(fallback, "EventID"),
            StepIdAt(fallback, "SeqID"), StepIdAt(record, "step_id"),
            StepIdAt(record, "stepId"), StepIdAt(record, "step-id"),
            StepIdAt(record, "eventID"), StepIdAt(record, "EventID"),
            StepIdAt(record, "SeqID"), StepIdAt(record, "seqId")>>,
          <<"unknown">>)
      message ==
        IF HasKey(record, "message") /\ NonEmpty(record.obj["message"])
          THEN record.obj["message"]
        ELSE IF HasKey(record, "msg") /\ NonEmpty(record.obj["msg"])
          THEN record.obj["msg"]
        ELSE Stringify(record)
      finished ==
        IF HasKey(record, "finished") THEN record.obj["finished"]
        ELSE IF HasKey(record, "Finished") THEN record.obj["Finished"]
        ELSE FALSE
  IN [step_id |-> stepId, message |-> message, finished |-> finished,
      type |-> getEventType(stepId)]

\* parseEventPayload on a parsed record, with the fallback context (JNull for
\* none).  The timestamp plays no part in what is checked and is left out.
RecordEvent(record, fallback) ==
  LET stepId ==
        FirstNonEmpty(
          <<StepIdAt(record, "step_id"), StepIdAt(record, "stepId"),
            StepIdAt(record, "step-id"), StepIdAt(record, "eventID"),
            StepIdAt(record, "EventID"), StepIdAt(record, "SeqID"),
            StepIdAt(record, "seqId"), StepIdAt(fallback, "eventID"),
            StepIdAt(fallback, "EventID"), StepIdAt(fallback, "SeqID")>>,
          <<"unknown">>)
      message ==
        IF HasKey(record, "message") /\ NonEmpty(record.obj["message"])
          THEN record.obj["message"]
        ELSE IF HasKey(record, "msg") /\ NonEmpty(record.obj["msg"])
          THEN record.obj["msg"]
        ELSE Stringify(record)
      finished ==
        IF HasKey(record, "finished") THEN record.obj["finished"]
        ELSE IF HasKey(record, "Finished") THEN record.obj["Finished"]
        ELSE FALSE
  IN [step_id |-> stepId, message |-> message, finished |-> finished,
      type |-> getEventType(stepId)]

\* The event parseEventPayload builds from text JSON.parse rejects.
PlainEvent(text) ==
  [step_id |-> <<"unknown">>, message |-> text, finished |-> FALSE,
   type |-> getEventType(<< >>)]

\* The outcome of a decoding step: the events handed to onEvent in order, the
\* cursor, and whether a TypeError was thrown (after the events before it).
Decoded(evs, cursor, threw) == [events |-> evs, cursor |-> cursor, threw |-> threw]

\* parseEventPayload that gives no event for a record without a message field.
ParseValueNeedsMessage(payload, fallback) ==
  IF payload.t = "null" \/ ~HasKey(payload, "message") THEN << >>
  ELSE <<RecordEvent(payload, fallback)>>

\* parseEventPayload(payload, fallback) for a payload that is a JSON value:
\* null gives no event; reading a property of null throws.
ParseValue(payload, fallback) ==
  IF payload.t = "null" THEN << >> ELSE <<RecordEvent(payload, fallback)>>

\* The for-of loop of emitFromResponse over the items of a JSON array.
RECURSIVE EmitItems(_, _)
EmitItems(items, cursor) ==
  IF items = << >> THEN Decoded(<< >>, cursor, FALSE)
  ELSE LET entry == Head(items) IN
    IF entry.t = "null" THEN Decoded(<< >>, cursor, TRUE)
    ELSE
      LET seqId == IF HasKey(entry, "SeqID") /\ Truthy(entry.obj["SeqID"])
                     THEN entry.obj["SeqID"]
                   ELSE IF HasKey(entry, "seqId") /\ Truthy(entry.obj["seqId"])
                     THEN entry.obj["seqId"]
                   ELSE NoCursor
          next == IF Truthy(seqId) THEN seqId ELSE cursor
          payload == IF HasKey(entry, "data") /\ entry.obj["data"].t # "null"
                     THEN entry.obj["data"] ELSE entry
          rest == EmitItems(Tail(items), next)
      IN Decoded(ParseValue(payload, entry) \o rest.events, rest.cursor, rest.threw)

\* emitFromResponse(raw) for a parsed JSON value.
EmitParsed(raw, cursor) ==
  IF raw.t = "null" THEN Decoded(<< >>, cursor, FALSE)
  ELSE IF raw.t = "array" THEN EmitItems(raw.items, cursor)
  ELSE IF HasKey(raw, "events") /\ raw.obj["events"].t # "null"
    THEN IF raw.obj["events"].t = "array"
         THEN EmitItems(raw.obj["events"].items, cursor)
         ELSE Decoded(<< >>, cursor, TRUE)      \* for-of over a non-iterable
  ELSE IF HasKey(raw, "items") /\ raw.obj["items"].t # "null"
    THEN IF raw.obj["items"].t = "array"
         THEN EmitItems(raw.obj["items"].items, cursor)
         ELSE Decoded(<< >>, cursor, TRUE)
  ELSE EmitItems(<<raw>>, cursor)


\* A text body is its sequence of lines.  A line is blank, a comment (':'),
\* an id: line, a data: line or any other text; the content of a data: line
\* is a fragment, JSON text (with its parsed value) or plain text.
BlankLine == [tag |-> "blank"]
CommentLine == [tag |-> "comment"]
IdLine(id) == [tag |-> "id", id |-> id]
DataLine(frag) == [tag |-> "data", frag |-> frag]
OtherLine(text) == [tag |-> "other", text |-> text]
JsonFrag(v) == [json |-> TRUE, value |-> v]
TextFrag(text) == [json |-> FALSE, text |-> text]

FragRaw(frag) == IF frag.json THEN Stringify(frag.value) ELSE frag.text

LineRaw(line) ==
  CASE line.tag = "blank" -> << >>
    [] line.tag = "comment" -> <<":">>
    [] line.tag = "id" -> <<"id:", line.id>>
    [] line.tag = "data" -> <<"data:">> \o FragRaw(line.frag)
    [] OTHER -> line.text

\* String.prototype.trim on a text body: blank lines at both ends go.
RECURSIVE TrimLinesStart(_)
TrimLinesStart(lines) ==
  IF lines # << >> /\ Head(lines).tag = "blank" THEN TrimLinesStart(Tail(lines)) ELSE lines
RECURSIVE TrimLinesEnd(_)
TrimLinesEnd(lines) ==
  IF lines # << >> /\ lines[Len(lines)].tag = "blank"
  THEN TrimLinesEnd(SubSeq(lines, 1, Len(lines) - 1)) ELSE lines
TrimLines(lines) == TrimLinesEnd(TrimLinesStart(lines))

\* pushEvent of parseSseText.
pushEvent(out, currentId, dataLines) ==
  IF Truthy(currentId) \/ dataLines # << >>
  THEN Append(out, [id |-> currentId, data |-> dataLines])
  ELSE out

\* parseSseText: the loop over the lines and the last pushEvent.
RECURSIVE SseScan(_, _, _, _)
SseScan(lines, currentId, dataLines, out) ==
  IF lines = << >> THEN pushEvent(out, currentId, dataLines)
  ELSE LET line == Head(lines) IN
    CASE line.tag = "blank" ->
           SseScan(Tail(lines), Absent, << >>, pushEvent(out, currentId, dataLines))
      [] line.tag = "id" -> SseScan(Tail(lines), line.id, dataLines, out)
      [] line.tag = "data" ->
           SseScan(Tail(lines), currentId, Append(dataLines, line.frag), out)
      [] OTHER -> SseScan(Tail(lines), currentId, dataLines, out)

parseSseText(lines) == SseScan(lines, Absent, << >>, << >>)

\* parseEventPayload(payload, fallback) for the joined data lines of a frame:
\* [events, threw].  One JSON fragment parses to its value; anything else is
\* text JSON.parse rejects.
ParseFrame(frags, fallback) ==
  IF Len(frags) = 1 /\ frags[1].json
  THEN IF frags[1].value.t = "null"
       THEN [events |-> << >>, threw |-> TRUE]       \* a property of null
       ELSE [events |-> <<RecordEvent(frags[1].value, fallback)>>, threw |-> FALSE]
  ELSE LET text == Flatten([i \in DOMAIN frags |-> FragRaw(frags[i])])
       IN [events |-> IF text = << >> THEN << >> ELSE <<PlainEvent(text)>>,
           threw |-> FALSE]

\* A loop over the frames that leaves lastSeqId alone.
RECURSIVE EmitFramesIdLost(_, _)
EmitFramesIdLost(entries, cursor) ==
  IF entries = << >> THEN Decoded(<< >>, cursor, FALSE)
  ELSE LET entry == Head(entries)
           fallback == IF Truthy(entry.id) THEN JObj([SeqID |-> entry.id]) ELSE JNull
           parsed == ParseFrame(entry.data, fallback)
       IN IF parsed.threw THEN Decoded(<< >>, cursor, TRUE)
          ELSE LET rest == EmitFramesIdLost(Tail(entries), cursor)
               IN Decoded(parsed.events \o rest.events, rest.cursor, rest.threw)

\* The for-of loop of emitFromResponse over the frames of an SSE text.
RECURSIVE EmitFrames(_, _)
EmitFrames(entries, cursor) ==
  IF entries = << >> THEN Decoded(<< >>, cursor, FALSE)
  ELSE LET entry == Head(entries)
           next == IF Truthy(entry.id) THEN entry.id ELSE cursor
           fallback == IF Truthy(entry.id) THEN JObj([SeqID |-> entry.id]) ELSE JNull
           parsed == ParseFrame(entry.data, fallback)
       IN IF parsed.threw THEN Decoded(<< >>, next, TRUE)
          ELSE LET rest == EmitFrames(Tail(entries), next)
               IN Decoded(parsed.events \o rest.events, rest.cursor, rest.threw)

IsSseText(lines) ==
  /\ lines # << >>
  /\ \/ lines[1].tag \in {"id", "data"}
     \/ \E i \in 2..Len(lines) : lines[i].tag = "data"

\* emitFromResponse(raw) for text JSON.parse rejected.
EmitText(lines, cursor) ==
  LET trimmed == TrimLines(lines) IN
  IF trimmed = << >> THEN Decoded(<< >>, cursor, FALSE)
  ELSE IF IsSseText(trimmed) THEN EmitFrames(parseSseText(trimmed), cursor)
  ELSE Decoded(<<PlainEvent(Flatten([i \in DOMAIN trimmed |-> LineRaw(trimmed[i])]))>>,
               cursor, FALSE)

\* A response body: text JSON.parse accepts (with its value) or other text.
JsonBody(v) == [form |-> "json", value |-> v]
TextBody(lines) == [form |-> "text", lines |-> lines]

IsBlank(body) == body.form = "text" /\ TrimLines(body.lines) = << >>

\* The try/catch that ends poll's loop body: emitFromResponse(JSON.parse(text)),
\* and emitFromResponse(text) when that threw; the text of a JSON body parses
\* in parseEventPayload and becomes one event.
EmitBody(body, cursor) ==
  IF body.form = "json"
  THEN LET first == EmitParsed(body.value, cursor)
       IN IF first.threw
          THEN Decoded(first.events \o <<RecordEvent(body.value, JNull)>>,
                       first.cursor, FALSE)
          ELSE first
  ELSE EmitText(body.lines, cursor)


\* ------------------------------------------------------------ environment
\* What the backend answers.  Status reads are drawn freely from the status
\* vocabulary, its case variants and strings outside it.
StatusStrings ==
  {"scheduled", "pending", "running", "executing", "success", "complete",
   "succeeded", "error", "failed", "Running", "EXECUTING", "SUCCESS", "Failed",
   "weird-status", "Weird-Status", ""}

EmptyObject == [key \in {} |-> ""]

JobBodies ==
  {[status |-> str] : str \in StatusStrings}
    \cup {EmptyObject,
          ("status" :> "failed") @@ ("error-message" :> "boom"),
          ("status" :> "error") @@ ("error_message" :> "oops") @@ ("errorMessage" :> "late"),
          ("status" :> "Failed") @@ ("errorMessage" :> ""),
          ("status" :> "failed") @@ ("error-message" :> "") @@ ("error_message" :> "oops")}

Succeeded(data) == [ok |-> TRUE, data |-> data, message |-> NoError]
Failed(message) == [ok |-> FALSE, data |-> EmptyObject, message |-> message]

CreateOutcomes ==
  {Succeeded(EmptyObject), Failed(<<"Job creation failed: ", "500">>),
   Failed(<<"Job creation response missing job ID">>)}

ReadOutcomes ==
  {Succeeded(data) : data \in JobBodies}
    \cup {Failed(<<"Job read failed: ", "500">>), Failed(<<"Failed to fetch">>)}

SeqStr == <<"s1", "s2", "s3", "s4", "s5", "s6">>
JobName == <<"job1", "job2", "job3", "job4">>

\* The k-th event of a job on the wire: chat:request, then chat tokens.
BackendRecord(job, k) ==
  JObj([SeqID |-> SeqStr[k],
        step_id |-> IF k = 1 THEN <<"chat", "request">> ELSE <<"chat", "token", SeqStr[k]>>,
        message |-> <<JobName[job], SeqStr[k]>>,
        finished |-> FALSE])

CursorIndex(cursor) ==
  IF \E k \in DOMAIN SeqStr : SeqStr[k] = cursor
  THEN CHOOSE k \in DOMAIN SeqStr : SeqStr[k] = cursor
  ELSE 0

Batch(job, from, to) == [i \in 1..(to - from) |-> BackendRecord(job, from + i)]

SseLines(records) ==
  Flatten([i \in DOMAIN records |->
    <<IdLine(records[i].obj["SeqID"]), DataLine(JsonFrag(records[i])), BlankLine>>])

\* A job emits k.events events and drains them before it reports a terminal
\* status.  The bodies the events endpoint may answer a request carrying
\* `cursor` with: the events after the cursor that are there by then, as a
\* JSON array, wrapped in an object, as SSE frames, or a blank body.
BackendBodies(job, cursor, k) ==
  LET from == CursorIndex(cursor) IN
  UNION {LET batch == Batch(job, from, to) IN
         IF batch = << >> THEN {TextBody(<<BlankLine>>), JsonBody(JArr(<< >>))}
         ELSE {JsonBody(JArr(batch)), JsonBody(JObj([events |-> JArr(batch)])),
               TextBody(SseLines(batch))}
           \cup (IF Len(batch) = 1 THEN {JsonBody(batch[1])} ELSE {})
        : to \in from..k.events}

EventStatuses == {"200", "101", "204", "404", "500"}

\* response.ok taken as true whatever the status.
ResponseOkAlways(code) == code = code

ResponseOk(code) == code \in {"200", "201", "204"}

\* --------------------------------------------------------------- actions
\* The run's timestamps, 0 for one that is not set, and the reading of the
\* clock at the last of them.  The hook that records them is not part of the
\* sources (only the page that shows them is): they follow the specification.
NoStamps ==
  [now |-> 0, submittedAt |-> 0, executingAt |-> 0, firstEventAt |-> 0,
   firstTokenAt |-> 0, finishedAt |-> 0]

Init ==
  /\ status = "idle"
  /\ jobId = 0
  /\ error = NoError
  /\ tokenEvents = 0
  /\ eventsConnectionStatus = "idle"
  /\ events = << >>
  /\ messages = << >>
  /\ assistantIdRef = 0
  /\ abortRef = 0
  /\ pollRef = 0
  /\ connectedRef = FALSE
  /\ nruns = 0
  /\ pc = [r \in Runs |-> "none"]
  /\ timers = {}
  /\ inflight = [r \in Runs |-> 0]
  /\ subs = << >>
  /\ afterReset = FALSE
  /\ calls = [s \in 1..MaxSubs |-> << >>]
  /\ delivered = [s \in 1..MaxSubs |-> << >>]
  /\ failures = [s \in 1..MaxSubs |-> << >>]
  /\ received = [s \in 1..MaxSubs |-> << >>]
  /\ bodies = [s \in 1..MaxSubs |-> << >>]
  /\ decodes = [s \in 1..MaxSubs |-> << >>]
  /\ backend = [finished |-> FALSE, early |-> [r \in Runs |-> 0]]
  /\ stamps = NoStamps

\* The scope of a specification: how many runs, concurrent reads and
\* subscriptions it explores, and whether it records the subscriptions'
\* histories (then each subscription issues at most `polls` requests).
ControllerScope ==
  [runs |-> 1, inflight |-> MaxInflight, subs |-> MaxSubs, events |-> MaxEvents,
   track |-> FALSE, polls |-> 0]
RunsScope ==
  [runs |-> MaxRuns, inflight |-> 1, subs |-> 1, events |-> 1,
   track |-> FALSE, polls |-> 0]
SubscriptionScope ==
  [runs |-> 1, inflight |-> 1, subs |-> 1, events |-> 0,
   track |-> TRUE, polls |-> MaxPolls]

\* The answers the controller-level specification draws from: one status of
\* each class and one failure of each request.
ControllerReads ==
  {Succeeded([status |-> str]) : str \in {"scheduled", "running", "success", "weird-status"}}
    \cup {Succeeded(("status" :> "failed") @@ ("error-message" :> "boom")),
          Failed(<<"Job read failed: ", "500">>)}
ControllerCreates ==
  {Succeeded(EmptyObject), Failed(<<"Job creation failed: ", "500">>),
   Failed(<<"Job creation response missing job ID">>), Failed(<<"Failed to fetch">>)}
ControllerStatuses == {"200", "204", "500"}

historyVars == <<received, bodies, decodes>>

\* submitPrompt(prompt) up to its await of createChatJob.
SubmitPrompt(prompt, k) ==
  LET trimmed == Trim(prompt)
      run == nruns + 1
  IN IF trimmed = << >>
     THEN UNCHANGED vars
     ELSE /\ nruns < k.runs
          /\ Commit([cleanup(Cur) EXCEPT
                       !.status = "submitting",
                       !.error = NoError,
                       !.jobId = 0,
                       !.tokenEvents = 0,
                       !.events = << >>,
                       !.eventsConnectionStatus = "waiting",
                       !.assistantIdRef = run,
                       !.messages = messages \o <<UserMessage(run, trimmed),
                                                  buildAssistantMessage(run)>>])
          /\ nruns' = run
          /\ pc' = [pc EXCEPT ![run] = "create"]
          /\ afterReset' = FALSE
          /\ UNCHANGED <<inflight, historyVars>>

\* createChatJob settles: setJobId and the first pollOnce up to its await of
\* readJob, or the catch of submitPrompt.
CreateSettles(run, outcome) ==
  /\ pc[run] = "create"
  /\ IF outcome.ok
     THEN /\ jobId' = run
          /\ pc' = [pc EXCEPT ![run] = "firstRead"]
          /\ UNCHANGED <<status, error, tokenEvents, eventsConnectionStatus, events,
                         messages, assistantIdRef, abortRef, pollRef, connectedRef,
                         timers, subs, calls, delivered, failures>>
     ELSE /\ Commit(submitFailed(Cur, outcome.message))
          /\ pc' = [pc EXCEPT ![run] = "done"]
  /\ UNCHANGED <<nruns, inflight, afterReset, historyVars>>

\* The first readJob settles: the rest of pollOnce, then setInterval; or the
\* catch of submitPrompt.
FirstReadSettles(run, outcome, k) ==
  /\ pc[run] = "firstRead"
  /\ IF outcome.ok
     THEN LET job == readJob(outcome.data)
              polled == pollOnce(Cur, run, job)
          IN /\ OpensSubscription(Cur, job) => Len(subs) < k.subs
             /\ Commit([polled EXCEPT !.pollRef = run, !.timers = @ \cup {run}])
     ELSE Commit(submitFailed(Cur, outcome.message))
  /\ pc' = [pc EXCEPT ![run] = "done"]
  /\ UNCHANGED <<nruns, inflight, afterReset, historyVars>>

\* The interval fires: pollOnce up to its await of readJob.
TimerTick(run, k) ==
  /\ run \in timers
  /\ inflight[run] < k.inflight
  /\ inflight' = [inflight EXCEPT ![run] = @ + 1]
  /\ UNCHANGED <<hookVars, nruns, pc, afterReset, historyVars>>

\* A timer-driven readJob settles: the rest of pollOnce, or the catch of the
\* interval callback.
TickReadSettles(run, outcome, k) ==
  /\ inflight[run] > 0
  /\ inflight' = [inflight EXCEPT ![run] = @ - 1]
  /\ IF outcome.ok
     THEN LET job == readJob(outcome.data)
          IN /\ OpensSubscription(Cur, job) => Len(subs) < k.subs
             /\ Commit(pollOnce(Cur, run, job))
     ELSE Commit(pollFailed(Cur, outcome.message))
  /\ UNCHANGED <<nruns, pc, afterReset, historyVars>>

\* reset().
Reset ==
  /\ Commit([cleanup(Cur) EXCEPT
               !.assistantIdRef = 0,
               !.messages = << >>,
               !.status = "idle",
               !.jobId = 0,
               !.error = NoError,
               !.tokenEvents = 0,
               !.events = << >>,
               !.eventsConnectionStatus = "idle"])
  /\ afterReset' = TRUE
  /\ UNCHANGED <<nruns, pc, inflight, historyVars>>


\* Bodies of the subscription-level specification: records with and without
\* ids and messages, in every supported shape, and malformed ones.
RecA == JObj([SeqID |-> "s1", step_id |-> <<"chat", "token", "1">>, message |-> <<"a">>])
RecB == JObj([seqId |-> "s2", stepId |-> <<"chat", "tokens", "2">>, msg |-> <<"b">>,
              finished |-> TRUE])
RecC == JObj([step_id |-> <<"phase", "search">>])

SubscriptionBodies ==
  {JsonBody(JArr(<<RecA, RecB>>)),
   JsonBody(JArr(<<RecB, RecA>>)),
   JsonBody(JObj([events |-> JArr(<<RecC, RecA>>)])),
   JsonBody(RecB),
   JsonBody(JArr(<<RecA, JNull>>)),
   JsonBody(JArr(<<JNull, RecB>>)),
   JsonBody(JArr(<< >>)),
   TextBody(SseLines(<<RecA>>) \o <<CommentLine, DataLine(JsonFrag(RecC))>>),
   TextBody(<<OtherLine(<<"hello">>)>>),
   TextBody(<<BlankLine>>)}

\* ------------------------------------------------- the subscription loop
\* Subscription s invokes one of its three callbacks; a specification that
\* keeps the histories records the call and its argument.
CallsOnFirstConnect(h, s, k) ==
  LET after == onFirstConnect(h)
  IN IF k.track THEN [after EXCEPT !.calls[s] = Append(@, "connect")] ELSE after

CallsOnEvent(h, s, k, event) ==
  LET after == onEvent(h, event)
  IN IF k.track
     THEN [after EXCEPT !.calls[s] = Append(@, "event"),
                        !.delivered[s] = Append(@, event)]
     ELSE after

CallsOnError(h, s, k, message) ==
  LET after == onFatalError(h, message)
  IN IF k.track
     THEN [after EXCEPT !.calls[s] = Append(@, "error"),
                        !.failures[s] = Append(@, message)]
     ELSE after

\* markConnected without its hasConnected test.
markConnectedEachTime(h, s, k) ==
  CallsOnFirstConnect([h EXCEPT !.subs[s].hasConnected = TRUE], s, k)

\* markConnected of subscription s.
markConnected(h, s, k) ==
  IF h.subs[s].hasConnected THEN h
  ELSE CallsOnFirstConnect([h EXCEPT !.subs[s].hasConnected = TRUE], s, k)

\* The events of one decoded body handed to onEvent last first.
RECURSIVE DeliverAllLastFirst(_, _, _, _)
DeliverAllLastFirst(h, s, k, evs) ==
  IF evs = << >> THEN h
  ELSE DeliverAllLastFirst(CallsOnEvent(h, s, k, evs[Len(evs)]), s, k,
                           SubSeq(evs, 1, Len(evs) - 1))

\* A delivery that remembers what it delivered: an event equal to one handed
\* to onEvent before is skipped.
RECURSIVE DeliverAllUnseen(_, _, _, _)
DeliverAllUnseen(h, s, k, evs) ==
  IF evs = << >> THEN h
  ELSE IF \E i \in DOMAIN h.delivered[s] : h.delivered[s][i] = Head(evs)
    THEN DeliverAllUnseen(h, s, k, Tail(evs))
  ELSE DeliverAllUnseen(CallsOnEvent(h, s, k, Head(evs)), s, k, Tail(evs))

\* The events of one decoded body go to onEvent one by one.
RECURSIVE DeliverAll(_, _, _, _)
DeliverAll(h, s, k, evs) ==
  IF evs = << >> THEN h
  ELSE DeliverAll(CallsOnEvent(h, s, k, Head(evs)), s, k, Tail(evs))

\* The loop comes back to its top, finds the signal not aborted and issues
\* the next events request.  A specification that keeps the histories
\* leaves every request after the first k.polls ones unanswered.
Answered(s, k) == k.track => subs[s].polls <= k.polls
\* A loop that ends where it should go round.
LoopEnds(sub, k) == [sub EXCEPT !.at = "failed"]

NextRequest(sub, k) ==
  [sub EXCEPT !.at = "fetch", !.polls = IF k.track THEN @ + 1 ELSE @]

\* A pending request that settles normally although the signal was aborted.
AwaitingThoughAborted(s, where) ==
  /\ s \in DOMAIN subs
  /\ subs[s].at \in where

Awaiting(s, where) ==
  /\ s \in DOMAIN subs
  /\ subs[s].at \in where
  /\ ~subs[s].aborted

Recorded(history, s, k, more) ==
  IF k.track THEN [history EXCEPT ![s] = @ \o more] ELSE history

\* fetch of the events request resolves with a response of status `code`.
EventsResponse(s, code, k) ==
  /\ Awaiting(s, {"fetch"})
  /\ Answered(s, k)
  /\ received' = Recorded(received, s, k, <<code>>)
  /\ IF code = "204"
     THEN Commit([markConnected(Cur, s, k) EXCEPT !.subs[s] = NextRequest(@, k)])
     ELSE IF ~ResponseOk(code) /\ code # "101"
     THEN Commit([Cur EXCEPT !.subs[s].at = "errbody", !.subs[s].code = code])
     ELSE Commit([markConnected(Cur, s, k) EXCEPT !.subs[s].at = "body",
                                                  !.subs[s].code = code])
  /\ UNCHANGED <<nruns, pc, inflight, afterReset, bodies, decodes>>

\* response.text() of a 2xx/101 response resolves: blank bodies are skipped,
\* others decoded and their events handed to onEvent; an exception of the
\* decoder ends poll and reaches the catch of subscribeToJobEvents.
EventsBody(s, body, k) ==
  /\ Awaiting(s, {"body"})
  /\ bodies' = Recorded(bodies, s, k, <<body>>)
  /\ IF IsBlank(body)
     THEN /\ Commit([Cur EXCEPT !.subs[s] = NextRequest(@, k)])
          /\ UNCHANGED decodes
     ELSE LET decoded == EmitBody(body, subs[s].lastSeqId)
              fed == [DeliverAll(Cur, s, k, decoded.events) EXCEPT
                        !.subs[s].lastSeqId = decoded.cursor]
          IN /\ IF decoded.threw
                THEN Commit([CallsOnError(fed, s, k, <<"TypeError">>) EXCEPT
                               !.subs[s].at = "failed"])
                ELSE Commit([fed EXCEPT !.subs[s] = NextRequest(@, k)])
             /\ decodes' =
                  Recorded(decodes, s, k,
                    <<[body |-> body, from |-> subs[s].lastSeqId,
                       events |-> SubSeq(fed.delivered[s], Len(delivered[s]) + 1,
                                         Len(fed.delivered[s])),
                       to |-> fed.subs[s].lastSeqId]>>)
  /\ UNCHANGED <<nruns, pc, inflight, afterReset, received>>

\* response.text() of a response that is neither ok nor 101 resolves: poll
\* throws and the catch calls onError.
EventsErrorBody(s, text, k) ==
  /\ Awaiting(s, {"errbody"})
  /\ Commit([CallsOnError(Cur, s, k,
                          <<"Events request failed: ", subs[s].code, " - ">> \o text)
             EXCEPT !.subs[s].at = "failed"])
  /\ UNCHANGED <<nruns, pc, inflight, afterReset, historyVars>>

\* A catch that reports the failure and lets the loop issue the request again.
EventsRequestRetried(s, k) ==
  /\ Awaiting(s, {"fetch", "body", "errbody"})
  /\ Answered(s, k)
  /\ Commit([CallsOnError(Cur, s, k, <<"Failed to fetch">>) EXCEPT
               !.subs[s] = NextRequest(@, k)])
  /\ UNCHANGED <<nruns, pc, inflight, afterReset, historyVars>>

\* fetch or response.text() rejects for a reason other than the abort.
EventsRequestFails(s, k) ==
  /\ Awaiting(s, {"fetch", "body", "errbody"})
  /\ Answered(s, k)
  /\ Commit([CallsOnError(Cur, s, k, <<"Failed to fetch">>) EXCEPT
               !.subs[s].at = "failed"])
  /\ UNCHANGED <<nruns, pc, inflight, afterReset, historyVars>>

\* The pending fetch or response.text() of a cancelled subscription rejects
\* with an AbortError, which the catch swallows.
AbortSettles(s) ==
  /\ s \in DOMAIN subs
  /\ subs[s].aborted
  /\ subs[s].at \in {"fetch", "body", "errbody"}
  /\ subs' = [subs EXCEPT ![s].at = "stopped"]
  /\ UNCHANGED <<status, jobId, error, tokenEvents, eventsConnectionStatus, events,
                 messages, assistantIdRef, abortRef, pollRef, connectedRef, timers,
                 calls, delivered, failures, nruns, pc, inflight, afterReset,
                 historyVars>>

\* ---------------------------------------------------------- specifications
\* One run, with reset, overlapping status reads and the job's events.
NextIn(k) ==
  \/ /\ \E prompt \in Prompts : SubmitPrompt(prompt, k)
     /\ UNCHANGED <<backend, stamps>>
  \/ /\ \E run \in Runs, outcome \in ControllerCreates : CreateSettles(run, outcome)
     /\ UNCHANGED <<backend, stamps>>
  \/ /\ \E run \in Runs, outcome \in ControllerReads : FirstReadSettles(run, outcome, k)
     /\ UNCHANGED <<backend, stamps>>
  \/ /\ \E run \in Runs : TimerTick(run, k)
     /\ UNCHANGED <<backend, stamps>>
  \/ /\ \E run \in Runs, outcome \in ControllerReads : TickReadSettles(run, outcome, k)
     /\ UNCHANGED <<backend, stamps>>
  \/ /\ Reset
     /\ UNCHANGED <<backend, stamps>>
  \/ /\ \E s \in DOMAIN subs, code \in ControllerStatuses : EventsResponse(s, code, k)
     /\ UNCHANGED <<backend, stamps>>
  \/ /\ \E s \in DOMAIN subs :
          \E body \in BackendBodies(subs[s].job, subs[s].lastSeqId, k) : EventsBody(s, body, k)
     /\ UNCHANGED <<backend, stamps>>
  \/ /\ \E s \in DOMAIN subs : EventsErrorBody(s, <<"gone">>, k)
     /\ UNCHANGED <<backend, stamps>>
  \/ /\ \E s \in DOMAIN subs : EventsRequestFails(s, k)
     /\ UNCHANGED <<backend, stamps>>
  \/ /\ \E s \in DOMAIN subs : AbortSettles(s)
     /\ UNCHANGED <<backend, stamps>>

Next == NextIn(ControllerScope)
Spec == Init /\ [][Next]_vars

\* Several runs, started while requests of earlier runs are in flight.
NextRuns == NextIn(RunsScope)
SpecRuns == Init /\ [][NextRuns]_vars

\* The status reads of the subscription-level specification: the one that
\* opens the subscription and the one that cancels it.
SubscriptionReads == {Succeeded([status |-> str]) : str \in {"running", "success"}}

\* One run and its subscription, with the callbacks and responses of the
\* subscription recorded and bodies of every shape.
NextSub ==
  \/ /\ \E prompt \in Prompts : SubmitPrompt(prompt, SubscriptionScope)
     /\ UNCHANGED <<backend, stamps>>
  \/ /\ \E run \in Runs, outcome \in ControllerCreates : CreateSettles(run, outcome)
     /\ UNCHANGED <<backend, stamps>>
  \/ /\ \E run \in Runs, outcome \in SubscriptionReads :
          FirstReadSettles(run, outcome, SubscriptionScope)
     /\ UNCHANGED <<backend, stamps>>
  \/ /\ \E run \in Runs : TimerTick(run, SubscriptionScope)
     /\ UNCHANGED <<backend, stamps>>
  \/ /\ \E run \in Runs, outcome \in SubscriptionReads :
          TickReadSettles(run, outcome, SubscriptionScope)
     /\ UNCHANGED <<backend, stamps>>
  \/ /\ Reset
     /\ UNCHANGED <<backend, stamps>>
  \/ /\ \E s \in DOMAIN subs, code \in EventStatuses : EventsResponse(s, code, SubscriptionScope)
     /\ UNCHANGED <<backend, stamps>>
  \/ /\ \E s \in DOMAIN subs, body \in SubscriptionBodies : EventsBody(s, body, SubscriptionScope)
     /\ UNCHANGED <<backend, stamps>>
  \/ /\ \E s \in DOMAIN subs, text \in {<< >>, <<"gone">>} :
          EventsErrorBody(s, text, SubscriptionScope)
     /\ UNCHANGED <<backend, stamps>>
  \/ /\ \E s \in DOMAIN subs : EventsRequestFails(s, SubscriptionScope)
     /\ UNCHANGED <<backend, stamps>>
  \/ /\ \E s \in DOMAIN subs : AbortSettles(s)
     /\ UNCHANGED <<backend, stamps>>

SpecSub == Init /\ [][NextSub]_vars

\* Bodies of the decoder-level specification.  An SSE body is made of up to
\* MaxFrames frames separated by one blank line, with or without a blank line
\* after the last; a frame is an optional comment line, an optional id: line
\* and its data: lines.
RecD ==
  JObj([SeqID |-> "s3",
        data |-> JObj([stepId |-> <<"agent", "search", "web", "task-2">>,
                       message |-> <<"d">>])])

FrameData ==
  {<<JsonFrag(RecA)>>, <<JsonFrag(RecC)>>, <<JsonFrag(JNull)>>, <<TextFrag(<< >>)>>,
   <<TextFrag(<<"hi">>)>>, <<JsonFrag(RecA), JsonFrag(RecC)>>}

FrameLines(comment, id, data) ==
  (IF comment THEN <<CommentLine>> ELSE << >>)
    \o (IF id = Absent THEN << >> ELSE <<IdLine(id)>>)
    \o [i \in DOMAIN data |-> DataLine(data[i])]

FrameTexts ==
  {FrameLines(FALSE, id, data) : id \in {Absent, "s1", "s2"}, data \in FrameData}
    \cup {FrameLines(TRUE, id, <<JsonFrag(RecA)>>) : id \in {Absent, "s1"}}

RECURSIVE FramesTexts(_)
FramesTexts(n) ==
  IF n = 1 THEN FrameTexts
  ELSE {head \o <<BlankLine>> \o frame : head \in FramesTexts(n - 1), frame \in FrameTexts}

SseBodies ==
  UNION {{TextBody(lines), TextBody(lines \o <<BlankLine>>)} :
           lines \in UNION {FramesTexts(n) : n \in 1..MaxFrames}}

Items == {RecA, RecB, RecC, RecD, JNull}

Arrays == UNION {[1..n -> Items] : n \in 0..MaxItems}

KindStepIds ==
  {<<"workflow", "deep-research">>, <<"phase", "research">>, <<"agent", "search", "web">>,
   <<"agent", "search", "web", "task-2">>, <<"chat", "token", "5">>,
   <<"chat", "tokens", "5">>, <<"chat", "request">>, <<"chat", "response">>,
   <<"chat", "complete">>, <<"bogus">>, <<"Chat", "token", "5">>, <<"Phase", "research">>}

\* Records that name their step under the different keys, carry ids only, or
\* leave the naming to the element that wraps them.
RecE == JObj([SeqID |-> "s4", eventID |-> "e4", message |-> <<"e">>])
RecF == JObj([SeqID |-> "s5", data |-> JObj([message |-> <<"f">>])])
RecG == JObj([message |-> <<"g">>])
RecH == JObj([seqId |-> "s6", EventID |-> "E6", data |-> JObj([seqId |-> "s7"])])
RecI == JObj(("step-id" :> <<"phase", "x">>) @@ ("eventID" :> "e9"))
RecJ == JObj([seqId |-> "s8", data |-> JObj([message |-> <<"j">>])])

StepIdRecords == {RecA, RecB, RecC, RecD, RecE, RecF, RecG, RecH, RecI, RecJ}
FrameIds == {Absent, "s1"}

StepIdBodies ==
  {JsonBody(JArr(<<record>>)) : record \in StepIdRecords}
    \cup {JsonBody(record) : record \in StepIdRecords}
    \cup {TextBody(FrameLines(FALSE, id, <<JsonFrag(record)>>)) :
            id \in FrameIds, record \in StepIdRecords}

DecoderBodies ==
  SseBodies
    \cup StepIdBodies
    \cup {JsonBody(JArr(items)) : items \in Arrays}
    \cup {JsonBody(JObj([events |-> JArr(items)])) : items \in Arrays}
    \cup {JsonBody(JObj([items |-> JArr(items)])) : items \in Arrays}
    \cup {JsonBody(JObj([step_id |-> stepId])) : stepId \in KindStepIds}
    \cup {JsonBody(JObj([events |-> RecA])), JsonBody(JNull),
          TextBody(<<OtherLine(<<"hello">>)>>),
          TextBody(<<BlankLine, OtherLine(<<"hello">>), BlankLine>>),
          TextBody(<<BlankLine>>), TextBody(<<BlankLine, BlankLine>>)}

DecoderScope ==
  [runs |-> 1, inflight |-> 1, subs |-> 1, events |-> 0, track |-> TRUE, polls |-> 1]

\* One subscription that is opened, gets one 200 response and reads one body
\* of the decoder-level bodies.
NextDecode ==
  \/ /\ SubmitPrompt(<<"h">>, DecoderScope)
     /\ UNCHANGED <<backend, stamps>>
  \/ /\ \E run \in Runs : CreateSettles(run, Succeeded(EmptyObject))
     /\ UNCHANGED <<backend, stamps>>
  \/ /\ \E run \in Runs :
          FirstReadSettles(run, Succeeded([status |-> "running"]), DecoderScope)
     /\ UNCHANGED <<backend, stamps>>
  \/ /\ \E s \in DOMAIN subs : EventsResponse(s, "200", DecoderScope)
     /\ UNCHANGED <<backend, stamps>>
  \/ /\ \E s \in DOMAIN subs :
          /\ Awaiting(s, {"body"})
          /\ \E body \in DecoderBodies : EventsBody(s, body, DecoderScope)
     /\ UNCHANGED <<backend, stamps>>

SpecDecode == Init /\ [][NextDecode]_vars

\* One run and its status reads, the first and the timer-driven ones, drawn
\* from every answer of the backend; the subscriptions it opens get no answer.
ReadsScope ==
  [runs |-> 1, inflight |-> MaxInflight, subs |-> MaxSubs, events |-> 0,
   track |-> FALSE, polls |-> 0]

NextReads ==
  \/ /\ SubmitPrompt(<<"h">>, ReadsScope)
     /\ UNCHANGED <<backend, stamps>>
  \/ /\ \E run \in Runs : CreateSettles(run, Succeeded(EmptyObject))
     /\ UNCHANGED <<backend, stamps>>
  \/ /\ \E run \in Runs, outcome \in ReadOutcomes : FirstReadSettles(run, outcome, ReadsScope)
     /\ UNCHANGED <<backend, stamps>>
  \/ /\ \E run \in Runs : TimerTick(run, ReadsScope)
     /\ UNCHANGED <<backend, stamps>>
  \/ /\ \E run \in Runs, outcome \in ReadOutcomes : TickReadSettles(run, outcome, ReadsScope)
     /\ UNCHANGED <<backend, stamps>>

SpecReads == Init /\ [][NextReads]_vars

\* One subscription whose requests the backend answers with the job's events
\* after the cursor of the request, in every supported form, with 204 or
\* with a blank body; the callbacks, responses and bodies are recorded.
ResumeScope ==
  [runs |-> 1, inflight |-> 1, subs |-> 1, events |-> MaxEvents,
   track |-> TRUE, polls |-> MaxPolls]

NextResume ==
  \/ /\ SubmitPrompt(<<"h">>, ResumeScope)
     /\ UNCHANGED <<backend, stamps>>
  \/ /\ \E run \in Runs : CreateSettles(run, Succeeded(EmptyObject))
     /\ UNCHANGED <<backend, stamps>>
  \/ /\ \E run \in Runs :
          FirstReadSettles(run, Succeeded([status |-> "running"]), ResumeScope)
     /\ UNCHANGED <<backend, stamps>>
  \/ /\ \E s \in DOMAIN subs, code \in {"200", "101", "204"} :
          EventsResponse(s, code, ResumeScope)
     /\ UNCHANGED <<backend, stamps>>
  \/ /\ \E s \in DOMAIN subs :
          \E body \in BackendBodies(subs[s].job, subs[s].lastSeqId, ResumeScope) :
            EventsBody(s, body, ResumeScope)
     /\ UNCHANGED <<backend, stamps>>

SpecResume == Init /\ [][NextResume]_vars

\* One run to its end, with a job that finishes.  A status read issued before
\* the job finished is answered with a non-terminal status, one issued after
\* it with a terminal status; the answers of reads in flight arrive in any
\* order.  backend.early counts the reads in flight that were issued before.
EarlyReads == {Succeeded([status |-> str]) : str \in {"scheduled", "running"}}
LateReads ==
  {Succeeded([status |-> "success"]),
   Succeeded(("status" :> "failed") @@ ("error-message" :> "boom"))}

LiveScope ==
  [runs |-> 1, inflight |-> MaxInflight, subs |-> MaxSubs, events |-> 0,
   track |-> FALSE, polls |-> 0]

IssuedRead(run) == [backend EXCEPT !.early[run] = IF backend.finished THEN @ ELSE @ + 1]
ArrivedEarly(run) == [backend EXCEPT !.early[run] = @ - 1]

JobFinishes ==
  /\ ~backend.finished
  /\ backend' = [backend EXCEPT !.finished = TRUE]
  /\ UNCHANGED <<hookVars, nruns, pc, inflight, afterReset, historyVars, stamps>>

LiveSubmit == SubmitPrompt(<<"h">>, LiveScope) /\ UNCHANGED <<backend, stamps>>

LiveCreate ==
  \E run \in Runs, outcome \in ControllerCreates :
    /\ CreateSettles(run, outcome)
    /\ backend' = IF outcome.ok THEN IssuedRead(run) ELSE backend
    /\ UNCHANGED stamps

LiveFirstRead ==
  \E run \in Runs :
    \/ /\ backend.early[run] > 0
       /\ \E outcome \in EarlyReads : FirstReadSettles(run, outcome, LiveScope)
       /\ backend' = ArrivedEarly(run)
       /\ UNCHANGED stamps
    \/ /\ backend.early[run] = 0
       /\ \E outcome \in LateReads : FirstReadSettles(run, outcome, LiveScope)
       /\ UNCHANGED <<backend, stamps>>

LiveTick ==
  \E run \in Runs :
    /\ TimerTick(run, LiveScope)
    /\ backend' = IssuedRead(run)
    /\ UNCHANGED stamps

LiveEarlyRead ==
  \E run \in Runs :
    /\ backend.early[run] > 0
    /\ \E outcome \in EarlyReads : TickReadSettles(run, outcome, LiveScope)
    /\ backend' = ArrivedEarly(run)
    /\ UNCHANGED stamps

LiveLateRead ==
  \E run \in Runs :
    /\ inflight[run] > backend.early[run]
    /\ \E outcome \in LateReads : TickReadSettles(run, outcome, LiveScope)
    /\ UNCHANGED <<backend, stamps>>

LiveEventsResponse ==
  /\ \E s \in DOMAIN subs, code \in {"204", "500"} : EventsResponse(s, code, LiveScope)
  /\ UNCHANGED <<backend, stamps>>

\* An events request answered with 204: the loop issues the next one.
LiveEventsIdle ==
  /\ \E s \in DOMAIN subs : EventsResponse(s, "204", LiveScope)
  /\ UNCHANGED <<backend, stamps>>

LiveEventsErrorBody ==
  /\ \E s \in DOMAIN subs : EventsErrorBody(s, <<"gone">>, LiveScope)
  /\ UNCHANGED <<backend, stamps>>

LiveEventsFails ==
  /\ \E s \in DOMAIN subs : EventsRequestFails(s, LiveScope)
  /\ UNCHANGED <<backend, stamps>>

LiveAbortSettles ==
  /\ \E s \in DOMAIN subs : AbortSettles(s)
  /\ UNCHANGED <<backend, stamps>>

NextLive ==
  \/ LiveSubmit
  \/ JobFinishes
  \/ LiveCreate
  \/ LiveFirstRead
  \/ LiveTick
  \/ LiveEarlyRead
  \/ LiveLateRead
  \/ LiveEventsResponse
  \/ LiveEventsErrorBody
  \/ LiveEventsFails
  \/ LiveAbortSettles

\* Every request that was issued completes, the interval fires as long as it
\* is scheduled, and the job finishes.  An events request may be answered
\* with 204 each time: nothing obliges the backend to fail it.
LiveFairness ==
  /\ WF_vars(JobFinishes)
  /\ WF_vars(LiveCreate)
  /\ WF_vars(LiveFirstRead)
  /\ WF_vars(LiveTick)
  /\ WF_vars(LiveEarlyRead)
  /\ WF_vars(LiveLateRead)
  /\ WF_vars(LiveEventsIdle)
  /\ WF_vars(LiveEventsErrorBody)
  /\ WF_vars(LiveAbortSettles)

SpecLive == Init /\ [][NextLive]_vars /\ LiveFairness

\* ------------------------------------------------------------- properties
\* A subscription is active while its loop runs and nobody cancelled it.
ActiveSubs ==
  {s \in DOMAIN subs : ~subs[s].aborted /\ subs[s].at \in {"fetch", "body", "errbody"}}

\* The placeholder of the run is no longer streaming.
PlaceholderDone ==
  \A i \in DOMAIN messages : messages[i].role = "assistant" => messages[i].state = "done"

KnownStatuses == terminalSuccess \cup terminalError \cup nonTerminal

\* C1: in every reachable state at most one subscription is active and at
\* most one poll interval timer is scheduled, and a run is started (its
\* job-create request issued) only with the previous run's subscription and
\* timer torn down, whatever the interleaving of submitPrompt, reset, ticks
\* and completions.
C1_ConcurrencyGuard ==
  [][/\ Cardinality(ActiveSubs') <= 1
     /\ Cardinality(timers') <= 1
     /\ nruns' # nruns => (ActiveSubs' = {} /\ timers' = {})]_vars

\* C2: after reset() and until the next submitPrompt no poll timer is
\* scheduled and no subscription is active, also when a job-create call or a
\* status read that was in flight completes afterwards.
C2_ResetLeavesNothing == afterReset => (timers = {} /\ ActiveSubs = {})

\* C3: after reset() and until the next submitPrompt status is idle and the
\* error field is null; no late completion changes that.
C3_CancellationIsNoError == afterReset => (status = "idle" /\ error = NoError)

\* C4: whenever the status is success or error, no poll timer is scheduled
\* and no subscription is active, also when the very first status read
\* returns a terminal or unexpected status.
C4_TerminalMeansTornDown ==
  status \in {"success", "error"} => (timers = {} /\ ActiveSubs = {})

\* C5: within one run (no reset) the controller opens at most one
\* subscription and cancels it at most once, for every sequence of status
\* reads.
C5_OneSubscriptionPerRun ==
  ~afterReset =>
    /\ \A run \in Runs : Cardinality({s \in DOMAIN subs : subs[s].job = run}) <= 1
    /\ \A s \in DOMAIN subs : subs[s].cancels <= 1

\* C6: the step in which a subscription reports a fatal error leaves the
\* status error with the message recorded, the placeholder finalized, no
\* subscription active and no poll timer scheduled (so that no further status
\* read is issued).
C6_FatalErrorTearsDown ==
  [][\A s \in DOMAIN subs :
       (subs[s].at # "failed" /\ subs'[s].at = "failed") =>
         /\ status' = "error"
         /\ error' # NoError
         /\ PlaceholderDone'
         /\ ActiveSubs' = {}
         /\ timers' = {}]_vars

\* C7: the step in which a status read returns a status outside the known
\* vocabulary leaves the status error with a message naming that status, no
\* subscription active and no poll timer scheduled.
C7_UnexpectedStatusFailsClosed ==
  [][\A run \in Runs, outcome \in ControllerReads :
       (/\ outcome.ok
        /\ Normalized(readJob(outcome.data)) \notin KnownStatuses
        /\ \/ FirstReadSettles(run, outcome, ControllerScope)
           \/ TickReadSettles(run, outcome, ControllerScope))
       => /\ status' = "error"
          /\ error' = <<"Unexpected job status: ", Normalized(readJob(outcome.data))>>
          /\ ActiveSubs' = {}
          /\ timers' = {}]_vars

\* C8: when the run's status is success, every event the backend produced
\* for the job (all of them are produced before it reports a terminal
\* status) is in the run's event log.
C8_NoEventLost ==
  (status = "success" /\ jobId # 0) =>
    \A n \in 1..ControllerScope.events :
      \E i \in DOMAIN events : events[i].message = <<JobName[jobId], SeqStr[n]>>

\* The statuses of an events response at which the loop calls markConnected.
ConnectingStatuses == {"204", "101", "200", "201"}

RECURSIVE UntilNull(_)
UntilNull(items) ==
  IF items = << >> \/ Head(items).t = "null" THEN << >>
  ELSE <<Head(items)>> \o UntilNull(Tail(items))

WireRecords(body) ==
  IF body.form = "json"
  THEN CASE body.value.t = "array" -> UntilNull(body.value.items)
         [] HasKey(body.value, "events") -> UntilNull(body.value.obj["events"].items)
         [] body.value.t = "object" -> <<body.value>>
         [] OTHER -> << >>
  ELSE LET data == SelectSeq(body.lines, LAMBDA line : line.tag = "data" /\ line.frag.json)
       IN [i \in DOMAIN data |-> data[i].frag.value]

WireMessage(record) ==
  IF HasKey(record, "message") THEN record.obj["message"]
  ELSE IF HasKey(record, "msg") THEN record.obj["msg"]
  ELSE Stringify(record)

InServerOrder(body) ==
  LET records == WireRecords(body)
      decoded == EmitBody(body, NoCursor).events
  IN /\ Len(decoded) >= Len(records)
     /\ \A i \in DOMAIN records : decoded[i].message = WireMessage(records[i])

\* C10: the events a subscription handed to onEvent are the decoded events
\* of the bodies it read, body after body in poll order, and the events of
\* one body come in the order of the body's records.
C10_EventsInOrder ==
  \A s \in DOMAIN subs :
    /\ delivered[s] =
         Flatten([i \in DOMAIN bodies[s] |-> EmitBody(bodies[s][i], NoCursor).events])
    /\ \A i \in DOMAIN bodies[s] : InServerOrder(bodies[s][i])

C10_Witness ==
  \E s \in DOMAIN subs :
    /\ Len(bodies[s]) = 2
    /\ bodies[s][1] = JsonBody(JArr(<<RecB, RecA>>))
    /\ bodies[s][2].form = "text"
    /\ Len(delivered[s]) = 4
    /\ delivered[s][1].message = <<"b">>
    /\ delivered[s][2].message = <<"a">>

\* The calls of subscription s of one kind.
CallsOf(s, kind) == {i \in DOMAIN calls[s] : calls[s][i] = kind}

\* The message of the error poll throws for a response that is not accepted.
StatusError(code, text) == <<"Events request failed: ", code, " - ">> \o text

\* C11: a response whose status is neither 2xx, 101 nor 204 is the last one
\* the subscription receives; no body is decoded for it; once its text is
\* read onFatalError has been invoked exactly once, as the last callback, with
\* the error built from the status and the text (or, the text unreadable,
\* with the transport error).
C11_BadStatusIsFatal ==
  \A s \in DOMAIN subs :
    \A i \in DOMAIN received[s] :
      received[s][i] \notin ConnectingStatuses =>
        /\ i = Len(received[s])
        /\ subs[s].at \in {"errbody", "failed", "stopped"}
        /\ Len(bodies[s]) <= Cardinality({j \in 1..(i - 1) : received[s][j] # "204"})
        /\ subs[s].at = "errbody" => failures[s] = << >>
        /\ subs[s].at = "failed" =>
             /\ Cardinality(CallsOf(s, "error")) = 1
             /\ calls[s][Len(calls[s])] = "error"
             /\ \E text \in {<< >>, <<"gone">>} :
                  failures[s] \in {<<StatusError(received[s][i], text)>>,
                                   <<<<"Failed to fetch">>>>}

C11_Witness ==
  \E s \in DOMAIN subs :
    /\ received[s] = <<"200", "500">>
    /\ subs[s].at = "failed"
    /\ delivered[s] # << >>
    /\ failures[s] = <<StatusError("500", <<"gone">>)>>

\* C12: once cancel() was called on a subscription, no step invokes one of
\* its callbacks, delivers a response or a body to it, or issues a new events
\* request for it; its pending request can only settle into the end of the loop.
C12_CancelIsSilent ==
  [][\A s \in DOMAIN subs :
       subs[s].aborted =>
         /\ calls'[s] = calls[s]
         /\ delivered'[s] = delivered[s]
         /\ failures'[s] = failures[s]
         /\ received'[s] = received[s]
         /\ bodies'[s] = bodies[s]
         /\ subs'[s].polls = subs[s].polls
         /\ subs'[s].at \in {subs[s].at, "stopped"}]_vars

C12_Witness ==
  \E s \in DOMAIN subs :
    /\ subs[s].aborted
    /\ subs[s].at = "stopped"
    /\ received[s] = <<"200">>
    /\ calls[s] = <<"connect">>
    /\ failures[s] = << >>

C14_RetriesAfterTransientFailure ==
  [][\A s \in DOMAIN subs :
       EventsRequestFails(s, SubscriptionScope) =>
         /\ subs'[s].at = "fetch"
         /\ failures'[s] = failures[s]]_vars

\* The sequence ids a body carries, in the order the server wrote them: the
\* SeqID or seqId of each element of the array, the values of the id: lines.
ElementId(record) ==
  IF HasKey(record, "SeqID") /\ record.obj["SeqID"] # "" THEN record.obj["SeqID"]
  ELSE IF HasKey(record, "seqId") /\ record.obj["seqId"] # "" THEN record.obj["seqId"]
  ELSE ""

WireIds(body) ==
  IF body.form = "json"
  THEN LET elements ==
             CASE body.value.t = "array" -> body.value.items
               [] HasKey(body.value, "events") -> body.value.obj["events"].items
               [] body.value.t = "object" -> <<body.value>>
               [] OTHER -> << >>
       IN [i \in DOMAIN elements |-> ElementId(elements[i])]
  ELSE LET idLines == SelectSeq(body.lines, LAMBDA line : line.tag = "id")
       IN [i \in DOMAIN idLines |-> idLines[i].id]

RECURSIVE LastNonEmpty(_)
LastNonEmpty(ids) ==
  IF ids = << >> THEN NoCursor
  ELSE IF ids[Len(ids)] # "" THEN ids[Len(ids)]
  ELSE LastNonEmpty(SubSeq(ids, 1, Len(ids) - 1))

\* C15: whenever a subscription has an events request pending, its cursor is
\* the last non-empty sequence id of all the bodies it read so far, in
\* response and element order (bodies without ids leave it as it was).
C15_CursorCarriedForward ==
  \A s \in DOMAIN subs :
    subs[s].at = "fetch" =>
      subs[s].lastSeqId =
        LastNonEmpty(Flatten([i \in DOMAIN bodies[s] |-> WireIds(bodies[s][i])]))

\* The frames of an SSE text: its groups of lines between blank lines.
RECURSIVE Groups(_, _)
Groups(lines, current) ==
  LET closed == IF current = << >> THEN << >> ELSE <<current>>
  IN IF lines = << >> THEN closed
     ELSE IF Head(lines).tag = "blank" THEN closed \o Groups(Tail(lines), << >>)
     ELSE Groups(Tail(lines), Append(current, Head(lines)))

GroupData(group) == SelectSeq(group, LAMBDA line : line.tag = "data")
GroupIds(group) == SelectSeq(group, LAMBDA line : line.tag = "id")

IsFrames(body) ==
  /\ body.form = "text"
  /\ Groups(body.lines, << >>) # << >>
  /\ \A g \in DOMAIN Groups(body.lines, << >>) :
       GroupData(Groups(body.lines, << >>)[g]) # << >>

FrameMessage(group) ==
  LET data == GroupData(group)
  IN IF Len(data) = 1 /\ data[1].frag.json THEN WireMessage(data[1].frag.value)
     ELSE Flatten([i \in DOMAIN data |-> FragRaw(data[i].frag)])

\* C16: a subscription that read one SSE body of N frames (each with data:
\* lines) has delivered N events, the i-th with the content of the i-th
\* frame, and, every frame having an id: line, its cursor is the id of the
\* last frame; comment lines give no event and a last frame without a blank
\* line after it counts.
C16_SseFramesDecoded ==
  \A s \in DOMAIN subs :
    (Len(bodies[s]) = 1 /\ IsFrames(bodies[s][1])) =>
      LET frames == Groups(bodies[s][1].lines, << >>)
      IN /\ Len(delivered[s]) = Len(frames)
         /\ \A i \in DOMAIN frames : delivered[s][i].message = FrameMessage(frames[i])
         /\ (\A i \in DOMAIN frames : GroupIds(frames[i]) # << >>) =>
              subs[s].lastSeqId =
                GroupIds(frames[Len(frames)])[Len(GroupIds(frames[Len(frames)]))].id

\* The payload and the stepId of an array element as the server wrote them.
WirePayload(item) == IF HasKey(item, "data") THEN item.obj["data"] ELSE item

\* The keys that name a record's step, in the order of the claim, and the
\* keys of the fallback context.
RecordKeys == <<"step_id", "stepId", "step-id", "eventID", "EventID", "SeqID", "seqId">>
ContextKeys == <<"eventID", "EventID", "SeqID">>

\* The first non-empty value under the keys, as a stepId; << >> for none.
RECURSIVE FirstField(_, _)
FirstField(v, keys) ==
  IF keys = << >> THEN << >>
  ELSE IF StepIdAt(v, Head(keys)) # << >> THEN StepIdAt(v, Head(keys))
  ELSE FirstField(v, Tail(keys))

WireStepId(record) == FirstField(record, RecordKeys)

\* The stepId the claimed order gives a record decoded with a context.
StepIdOf(record, context) ==
  IF WireStepId(record) # << >> THEN WireStepId(record)
  ELSE IF FirstField(context, ContextKeys) # << >> THEN FirstField(context, ContextKeys)
  ELSE <<"unknown">>

IsRecordArray(body) ==
  /\ body.form = "json"
  /\ body.value.t = "array"
  /\ \A i \in DOMAIN body.value.items : body.value.items[i].t = "object"

\* C17: a subscription that read one JSON array of records has delivered one
\* event per element, in the order of the array, each with the element's
\* message and stepId and with the kind of that stepId.
C17_ArrayDecoded ==
  \A s \in DOMAIN subs :
    (Len(bodies[s]) = 1 /\ IsRecordArray(bodies[s][1])) =>
      LET items == bodies[s][1].value.items
      IN /\ Len(delivered[s]) = Len(items)
         /\ \A i \in DOMAIN items :
              /\ delivered[s][i].message = WireMessage(WirePayload(items[i]))
              /\ delivered[s][i].step_id = StepIdOf(WirePayload(items[i]), items[i])
              /\ delivered[s][i].type =
                   getEventType(StepIdOf(WirePayload(items[i]), items[i]))

C17_Witness ==
  \E s \in DOMAIN subs :
    /\ bodies[s] = <<JsonBody(JArr(<<RecD, RecB>>))>>
    /\ Len(delivered[s]) = 2
    /\ delivered[s][1].type = "task"
    /\ delivered[s][2].type = "chatToken"

\* C18: no body makes the decoder end the subscription: after a body was
\* read no onFatalError was invoked and the next events request is issued; a
\* blank body gives no event, and text that is neither JSON nor SSE gives one
\* event with stepId "unknown", finished false and the trimmed text as message.
C18_DecodingNeverThrows ==
  \A s \in DOMAIN subs :
    Len(bodies[s]) = 1 =>
      LET body == bodies[s][1]
      IN /\ failures[s] = << >>
         /\ subs[s].at = "fetch"
         /\ IsBlank(body) => delivered[s] = << >>
         /\ (body.form = "text" /\ ~IsBlank(body) /\ ~IsSseText(TrimLines(body.lines))) =>
              delivered[s] =
                <<[step_id |-> <<"unknown">>,
                   message |-> Flatten([i \in DOMAIN TrimLines(body.lines) |->
                                          LineRaw(TrimLines(body.lines)[i])]),
                   finished |-> FALSE, type |-> "unknown"]>>

\* The records of a body: the non-null elements of its array (their data
\* field where they have one), its single object, the JSON objects of its
\* SSE frames.
AllRecords(body) ==
  IF body.form = "json"
  THEN LET v == body.value
           elements ==
             CASE v.t = "array" -> v.items
               [] HasKey(v, "events") /\ v.obj["events"].t = "array" -> v.obj["events"].items
               [] HasKey(v, "items") /\ v.obj["items"].t = "array" -> v.obj["items"].items
               [] v.t = "object" -> <<v>>
               [] OTHER -> << >>
           present == SelectSeq(elements, LAMBDA item : item.t = "object")
       IN [i \in DOMAIN present |-> WirePayload(present[i])]
  ELSE LET frames == Groups(body.lines, << >>)
           payloads ==
             SelectSeq(frames, LAMBDA group :
               /\ Len(GroupData(group)) = 1
               /\ GroupData(group)[1].frag.json
               /\ GroupData(group)[1].frag.value.t = "object")
       IN [i \in DOMAIN payloads |-> GroupData(payloads[i])[1].frag.value]

RECURSIVE IsSubSeq(_, _)
IsSubSeq(small, large) ==
  IF small = << >> THEN TRUE
  ELSE IF large = << >> THEN FALSE
  ELSE IF Head(small) = Head(large) THEN IsSubSeq(Tail(small), Tail(large))
  ELSE IsSubSeq(small, Tail(large))

\* C19: a subscription that read one body has delivered, for every record of
\* the body and in their order, an event of its own whose message is the
\* record's message field or, without one, the record's JSON serialization.
C19_NoRecordDropped ==
  \A s \in DOMAIN subs :
    Len(bodies[s]) = 1 =>
      IsSubSeq([i \in DOMAIN AllRecords(bodies[s][1]) |->
                  WireMessage(AllRecords(bodies[s][1])[i])],
               [i \in DOMAIN delivered[s] |-> delivered[s][i].message])

\* The kinds the specification gives as examples, and one of each rule.
KindExamples ==
  {<<<<"workflow", "deep-research">>, "workflow">>,
   <<<<"phase", "research">>, "phase">>,
   <<<<"agent", "search", "web">>, "agent">>,
   <<<<"agent", "search", "web", "task-2">>, "task">>,
   <<<<"chat", "token", "5">>, "chatToken">>,
   <<<<"chat", "tokens", "5">>, "chatToken">>,
   <<<<"chat", "request">>, "chatLifecycle">>,
   <<<<"chat", "response">>, "chatLifecycle">>,
   <<<<"chat", "complete">>, "chatLifecycle">>,
   <<<<"bogus">>, "unknown">>,
   <<<<"Chat", "token", "5">>, "unknown">>,
   <<<<"Phase", "research">>, "unknown">>,
   <<<<"unknown">>, "unknown">>}

\* C20: every delivered event has the kind of the stepId it stores, and the
\* kind of each example stepId is the one the rules give.
C20_KindFromStepId ==
  \A s \in DOMAIN subs :
    \A i \in DOMAIN delivered[s] :
      /\ delivered[s][i].type = getEventType(delivered[s][i].step_id)
      /\ \A example \in KindExamples :
           delivered[s][i].step_id = example[1] => delivered[s][i].type = example[2]

C20_Witness ==
  \E s \in DOMAIN subs :
    /\ bodies[s] = <<JsonBody(JObj([step_id |-> <<"agent", "search", "web", "task-2">>]))>>
    /\ Len(delivered[s]) = 1
    /\ delivered[s][1].type = "task"

\* The placeholder of a run, where the transcript still has it, is finalized.
RunPlaceholderDone(run) ==
  \A i \in DOMAIN messages :
    (messages[i].role = "assistant" /\ messages[i].id = run) => messages[i].state = "done"

SubsOf(run) == {s \in DOMAIN subs : subs[s].job = run}

\* C21: the step in which the job-create call of a run fails (non-2xx, no id
\* in the response, network error) leaves the status error with the failure
\* message recorded and the run's placeholder finalized, and ends the run's
\* submitPrompt: it starts no timer, issues no status read and opens no
\* subscription, and no later step does so for that run (a timer is started
\* only by the run's first status read, a status read is issued only after a
\* successful create or by the run's timer, a subscription is opened only by
\* a status read that settles).
C21_CreateFailureEndsRun ==
  [][/\ \A run \in Runs, outcome \in ControllerCreates :
          (~outcome.ok /\ CreateSettles(run, outcome)) =>
            /\ status' = "error"
            /\ error' = outcome.message
            /\ RunPlaceholderDone(run)'
            /\ pc'[run] = "done"
            /\ run \notin timers'
            /\ inflight'[run] = 0
            /\ SubsOf(run)' = {}
     /\ \A run \in Runs :
          /\ pc[run] = "done" => pc'[run] = "done"
          /\ (run \in timers' /\ run \notin timers) => pc[run] = "firstRead"
          /\ inflight'[run] > inflight[run] => run \in timers
          /\ SubsOf(run)' # SubsOf(run) => (pc[run] = "firstRead" \/ inflight[run] > 0)]_vars

\* C22: the step in which a status read of a run fails, the first one or a
\* timer-driven one (others may be in flight), leaves the status error with
\* the failure message, no poll timer scheduled and no subscription active;
\* and a run whose submitPrompt has ended and whose timer is gone gets no
\* timer and no new status read later.
C22_ReadFailureNotRetried ==
  [][/\ \A run \in Runs, outcome \in ControllerReads :
          (/\ ~outcome.ok
           /\ \/ FirstReadSettles(run, outcome, RunsScope)
              \/ TickReadSettles(run, outcome, RunsScope))
          => /\ status' = "error"
             /\ error' = outcome.message
             /\ pc'[run] = "done"
             /\ timers' = {}
             /\ ActiveSubs' = {}
     /\ \A run \in Runs :
          (pc[run] = "done" /\ run \notin timers) =>
            /\ pc'[run] = "done"
            /\ run \notin timers'
            /\ inflight'[run] <= inflight[run]]_vars

\* C23: within one run (no step of submitPrompt or reset), once the status
\* is error with a message recorded, no step changes the message or the
\* status.
C23_ErrorStoredOnce ==
  [][(/\ status = "error"
      /\ error # NoError
      /\ nruns' = nruns
      /\ ~afterReset') => (status' = "error" /\ error' = error)]_vars

\* The non-empty error texts a job body carries.
ErrorKeys == {"error-message", "error_message", "errorMessage"}
SuppliedTexts(data) == {data[key] : key \in {k \in ErrorKeys : Has(data, k) /\ data[k] # ""}}

IsTerminalError(outcome) ==
  outcome.ok /\ Normalized(readJob(outcome.data)) \in terminalError

\* C24: the step in which a status read returns a terminalError status
\* records as error message a non-empty error text of the job body
\* (error-message, error_message or errorMessage) if there is one, and the
\* label naming the status only if there is none.
C24_JobErrorTextPreferred ==
  [][\A run \in Runs, outcome \in ReadOutcomes :
       (/\ IsTerminalError(outcome)
        /\ \/ FirstReadSettles(run, outcome, ReadsScope)
           \/ TickReadSettles(run, outcome, ReadsScope))
       => IF SuppliedTexts(outcome.data) # {}
          THEN \E text \in SuppliedTexts(outcome.data) : error' = <<text>>
          ELSE error' = <<"Chat job ", Normalized(readJob(outcome.data))>>]_vars

\* The stepId, message, finished flag and kind of the events of a decode.
Content(evs) ==
  [i \in DOMAIN evs |->
     [step_id |-> evs[i].step_id, message |-> evs[i].message,
      finished |-> evs[i].finished, type |-> evs[i].type]]

RunEnded ==
  /\ status \in {"success", "error"}
  /\ ActiveSubs = {}
  /\ timers = {}
  /\ PlaceholderDone

\* C26: with every request completing, the interval firing while it is
\* scheduled and a job that finishes, a run that was started reaches status
\* success or error with no subscription active, no poll timer scheduled and
\* the placeholder finalized, and stays so, in whatever order the answers of
\* overlapping status reads arrive.
C26_RunReachesItsEnd == [](nruns > 0 => <>[]RunEnded)

\* C27: with events that all carry a sequence id and a backend that answers
\* a request with events after the request's cursor only, a subscription
\* never hands the same event to onEvent twice, whatever the sequence of 204,
\* blank and non-blank responses and the form of the bodies.
C27_NoEventTwice ==
  \A s \in DOMAIN subs :
    \A i, j \in DOMAIN delivered[s] :
      i # j => delivered[s][i] # delivered[s][j]

C27_Witness ==
  \E s \in DOMAIN subs :
    /\ bodies[s] = <<TextBody(SseLines(Batch(1, 0, 1))), JsonBody(JArr(Batch(1, 1, 2)))>>
    /\ Len(delivered[s]) = 2
    /\ subs[s].lastSeqId = "s2"

\* The class of the status string of a job body, letter case aside.
StatusClass(data) ==
  LET lower == ToLowerCase(IF Has(data, "status") THEN data["status"] ELSE "unknown")
  IN CASE lower \in {"success", "complete", "succeeded"} -> "terminalSuccess"
       [] lower \in {"error", "failed"} -> "terminalError"
       [] lower \in {"scheduled", "pending"} -> "waiting"
       [] lower \in {"running", "executing"} -> "executing"
       [] OTHER -> "unexpected"

\* What a status read may change apart from the timer.
runState ==
  <<status, jobId, error, tokenEvents, eventsConnectionStatus, events, messages,
    abortRef, connectedRef, subs>>

\* C28: the step in which a status read settles with a status does the
\* transition of the class of its lower-cased status and no other: success
\* for terminalSuccess (the error field untouched), error with a message for
\* terminalError and for a status outside the vocabulary, nothing for
\* scheduled and pending, and for running and executing nothing with a
\* subscription open and at most the opening of a subscription otherwise.
C28_StatusClassTransitions ==
  [][\A run \in Runs, outcome \in ReadOutcomes :
       (/\ outcome.ok
        /\ \/ FirstReadSettles(run, outcome, ReadsScope)
           \/ TickReadSettles(run, outcome, ReadsScope))
       => LET class == StatusClass(outcome.data) IN
          /\ class = "terminalSuccess" => (status' = "success" /\ error' = error)
          /\ class = "terminalError" =>
               (status' = "error" /\ error' # NoError /\ error'[1] # "Unexpected job status: ")
          /\ class = "unexpected" =>
               (status' = "error" /\ error'[1] = "Unexpected job status: ")
          /\ class \in {"terminalSuccess", "terminalError", "unexpected"} =>
               (ActiveSubs' = {} /\ Len(subs') = Len(subs))
          /\ class = "waiting" => UNCHANGED runState
          /\ class = "executing" =>
               IF ActiveSubs # {} THEN UNCHANGED runState
               ELSE \/ UNCHANGED runState
                    \/ /\ status' = "streaming"
                       /\ Len(subs') = Len(subs) + 1
                       /\ error' = error]_vars

C28_Witness ==
  /\ status = "error"
  /\ error = <<"Chat job ", "failed">>
  /\ Len(subs) = 1
  /\ subs[1].aborted
  /\ timers = {}

\* C29: the event log is the sequence of the events handed to onEvent since
\* submitPrompt or the last reset(), in the order of the calls, whatever their
\* kind and finished flag; and a step other than submitPrompt and reset()
\* leaves the log as it is or extends it at its end.
C29_EventLogAppendOnly ==
  /\ [](/\ ~afterReset => events = delivered[1]
        /\ Len(events) <= Len(delivered[1])
        /\ events = SubSeq(delivered[1], Len(delivered[1]) - Len(events) + 1,
                           Len(delivered[1])))
  /\ [][(nruns' = nruns /\ ~(status' = "idle" /\ status # "idle")) =>
          (/\ Len(events') >= Len(events)
           /\ SubSeq(events', 1, Len(events)) = events)]_vars

C29_Witness ==
  /\ ~afterReset
  /\ Len(events) >= 3
  /\ \E i \in DOMAIN events : events[i].finished /\ events[i].type = "chatToken"
  /\ \E i \in DOMAIN events : events[i].type = "phase"
  /\ \E i \in DOMAIN events : ~events[i].finished /\ events[i].type = "chatToken"

\* The delivered events that are rendered: kind chatToken, finished false.
TokensOf(evs) == SelectSeq(evs, LAMBDA e : e.type = "chatToken" /\ ~e.finished)

RECURSIVE TextOf(_)
TextOf(evs) == IF evs = << >> THEN << >> ELSE Head(evs).message \o TextOf(Tail(evs))

\* The text of the assistant message of a run.
PlaceholderText(run) ==
  LET at == CHOOSE i \in DOMAIN messages : messages[i].id = run IN messages[at].text

\* C30: during a run the text of the assistant placeholder is the messages
\* of the delivered events of kind chatToken with finished false, one after
\* the other in the order of delivery, and tokenEvents counts those of them
\* whose text is not empty; no other delivered event shows in either.
C30_TextIsTheTokens ==
  (nruns = 1 /\ ~afterReset) =>
    LET tokens == TokensOf(delivered[1])
    IN /\ PlaceholderText(1) = TextOf(tokens)
       /\ tokenEvents = Len(SelectSeq(tokens, LAMBDA e : e.message # << >>))

C30_Witness ==
  /\ nruns = 1
  /\ ~afterReset
  /\ Len(TokensOf(delivered[1])) >= 2
  /\ \E i \in DOMAIN delivered[1] :
       delivered[1][i].finished /\ delivered[1][i].type = "chatToken"
  /\ \E i \in DOMAIN delivered[1] : delivered[1][i].type # "chatToken"

\* C31: the assistant placeholder of a run goes to state done only in a step
\* that sets status success or error (every call of finalizeAssistant is in
\* such a step); once it is done, no later step of the same run puts it back
\* into state streaming.
C31_FinalizedPlaceholderStays ==
  [][(/\ nruns' = nruns
      /\ messages # << >>
      /\ PlaceholderDone) => PlaceholderDone']_vars

\* Runs started one after the other or on top of each other, by prompts of
\* every shape, each up to the answer of its first status read, and reset().
SubmitScope ==
  [runs |-> MaxRuns, inflight |-> 1, subs |-> MaxSubs, events |-> 0,
   track |-> FALSE, polls |-> 0]
SubmitReads ==
  {Succeeded([status |-> str]) : str \in {"running", "success", "failed"}}

NextSubmit ==
  \/ /\ \E prompt \in Prompts : SubmitPrompt(prompt, SubmitScope)
     /\ UNCHANGED <<backend, stamps>>
  \/ /\ \E run \in Runs, outcome \in ControllerCreates : CreateSettles(run, outcome)
     /\ UNCHANGED <<backend, stamps>>
  \/ /\ \E run \in Runs, outcome \in SubmitReads :
          FirstReadSettles(run, outcome, SubmitScope)
     /\ UNCHANGED <<backend, stamps>>
  \/ /\ Reset
     /\ UNCHANGED <<backend, stamps>>

SpecSubmit == Init /\ [][NextSubmit]_vars

\* A prompt of blanks only.
IsBlankPrompt(prompt) == \A i \in DOMAIN prompt : prompt[i] = " "

\* C32: submitPrompt with an empty or blank prompt changes nothing and issues
\* no request, in every state; with any other prompt it sets status
\* submitting, clears error, jobId, token count and event log, and appends to
\* the transcript the user message with the trimmed prompt and after it an
\* empty assistant placeholder in state streaming, and awaits the job's
\* creation.
C32_BlankPromptIsNoOp ==
  [][\A prompt \in Prompts :
       SubmitPrompt(prompt, SubmitScope) =>
         IF IsBlankPrompt(prompt) THEN UNCHANGED vars
         ELSE LET n == Len(messages) IN
              /\ status' = "submitting"
              /\ error' = NoError
              /\ jobId' = 0
              /\ tokenEvents' = 0
              /\ events' = << >>
              /\ Len(messages') = n + 2
              /\ SubSeq(messages', 1, n) = messages
              /\ messages'[n + 1].role = "user"
              /\ messages'[n + 1].text = <<"h">>
              /\ messages'[n + 2].role = "assistant"
              /\ messages'[n + 2].text = << >>
              /\ messages'[n + 2].state = "streaming"
              /\ pc'[nruns'] = "create"]_vars

C32_Witness ==
  /\ nruns = 2
  /\ status = "submitting"
  /\ pc[2] = "create"
  /\ Len(messages) = 4
  /\ messages[2].state = "done"
  /\ events = << >>
  /\ error = NoError
  /\ jobId = 0

\* A text body of blank lines only.
OnlyBlankLines(body) ==
  body.form = "text" /\ \A i \in DOMAIN body.lines : body.lines[i].tag = "blank"

\* C33: the body of a 2xx response that holds nothing but white space makes
\* no call of onEvent or onError (no callback at all), leaves the cursor as
\* it is and is followed at once by the next request; a 204 response calls
\* neither onEvent nor onError (only onFirstConnect, the first time), leaves
\* the cursor as it is and is followed at once by the next request.
C33_BlankBodyAndNoContentSkipped ==
  [][\A s \in 1..MaxSubs :
       /\ \A body \in SubscriptionBodies :
            (OnlyBlankLines(body) /\ EventsBody(s, body, SubscriptionScope)) =>
              /\ calls'[s] = calls[s]
              /\ delivered' = delivered
              /\ failures' = failures
              /\ subs'[s].lastSeqId = subs[s].lastSeqId
              /\ subs'[s].at = "fetch"
              /\ UNCHANGED <<status, error, events, messages, tokenEvents>>
       /\ EventsResponse(s, "204", SubscriptionScope) =>
              /\ \/ calls'[s] = calls[s]
                 \/ ~subs[s].hasConnected /\ calls'[s] = Append(calls[s], "connect")
              /\ delivered' = delivered
              /\ failures' = failures
              /\ subs'[s].lastSeqId = subs[s].lastSeqId
              /\ subs'[s].at = "fetch"
              /\ UNCHANGED <<status, error, events, messages, tokenEvents>>]_vars

C33_Witness ==
  /\ Len(subs) = 1
  /\ ~subs[1].aborted
  /\ subs[1].at = "fetch"
  /\ subs[1].lastSeqId # NoCursor
  /\ Len(bodies[1]) = 2
  /\ OnlyBlankLines(bodies[1][2])
  /\ received[1] = <<"200", "200">>
  /\ Len(delivered[1]) >= 1
  /\ failures[1] = << >>

\* The array a JSON object wraps: its events field when that is an array,
\* its items field when there is no events field and that is an array.
Wrapped(v) ==
  IF HasKey(v, "events")
  THEN (IF v.obj["events"].t = "array" THEN <<v.obj["events"]>> ELSE << >>)
  ELSE IF HasKey(v, "items") /\ v.obj["items"].t = "array" THEN <<v.obj["items"]>>
  ELSE << >>

\* C34: the decoding of a JSON object that wraps an array in its events or
\* items field has delivered the events, and left the cursor, that decoding
\* the bare array from the same cursor gives; the decoding of a JSON object
\* with neither field has delivered exactly one event.
C34_WrapperIsItsArray ==
  \A s \in DOMAIN subs : \A i \in DOMAIN decodes[s] :
    LET d == decodes[s][i]
        v == d.body.value
    IN (d.body.form = "json" /\ v.t = "object") =>
         /\ Wrapped(v) # << >> =>
              LET bare == EmitBody(JsonBody(Wrapped(v)[1]), d.from)
              IN d.events = bare.events /\ d.to = bare.cursor
         /\ (~HasKey(v, "events") /\ ~HasKey(v, "items")) => Len(d.events) = 1

\* The context a frame gives its payload: its id: value as SeqID, or none.
FrameContext(id) == IF id = Absent THEN JNull ELSE JObj([SeqID |-> id])

\* The stepIds of the example records as array elements, by hand.
StepIdExamples ==
  {<<RecA, <<"chat", "token", "1">>>>, <<RecB, <<"chat", "tokens", "2">>>>,
   <<RecC, <<"phase", "search">>>>, <<RecD, <<"agent", "search", "web", "task-2">>>>,
   <<RecE, <<"e4">>>>, <<RecF, <<"s5">>>>, <<RecG, <<"unknown">>>>,
   <<RecH, <<"s7">>>>, <<RecI, <<"phase", "x">>>>, <<RecJ, <<"unknown">>>>}

\* C35: the event decoded from a record has as stepId the first non-empty of
\* the record's step_id, stepId, step-id, eventID, EventID, SeqID, seqId,
\* then of the context's eventID, EventID, SeqID, else "unknown": for a
\* record that is the one element of an array or the whole body, with the
\* element as context, and for a record that is the payload of an SSE frame,
\* with the frame's id as context.
C35_StepIdPrecedence ==
  \A s \in DOMAIN subs : \A i \in DOMAIN decodes[s] :
    LET d == decodes[s][i] IN
    \A record \in StepIdRecords :
      /\ d.body \in {JsonBody(JArr(<<record>>)), JsonBody(record)} =>
           /\ Len(d.events) = 1
           /\ d.events[1].step_id = StepIdOf(WirePayload(record), record)
           /\ <<record, d.events[1].step_id>> \in StepIdExamples
      /\ \A id \in FrameIds :
           d.body = TextBody(FrameLines(FALSE, id, <<JsonFrag(record)>>)) =>
             /\ Len(d.events) = 1
             /\ d.events[1].step_id = StepIdOf(record, FrameContext(id))
             /\ (record = RecG /\ id # Absent) => d.events[1].step_id = <<id>>

C35_Witness ==
  /\ Len(subs) = 1
  /\ Len(decodes[1]) = 1
  /\ decodes[1][1].body = TextBody(FrameLines(FALSE, "s1", <<JsonFrag(RecG)>>))
  /\ delivered[1] # << >>
  /\ delivered[1][1].step_id = <<"s1">>

\* ------------------------------------------------------------- timestamps
\* The specification's recording of the run's timestamps laid over the
\* steps of the hook: submittedAt by submitPrompt, executingAt by the status
\* read that opens a subscription, firstEventAt by the first onEvent,
\* firstTokenAt by the first rendered chat token, finishedAt by a status read
\* that observes a terminal status; each is set when it is not set yet, from
\* a clock that advances with every recording.
StampsAtSubmit ==
  [NoStamps EXCEPT !.now = stamps.now + 1, !.submittedAt = stamps.now + 1]

StampsAfter(terminal) ==
  LET now == stamps.now + 1
      executing == stamps.executingAt = 0 /\ Len(subs') > Len(subs)
      firstEvent == stamps.firstEventAt = 0 /\ Len(events') > Len(events)
      firstToken == stamps.firstTokenAt = 0 /\ tokenEvents' > tokenEvents
      finished == stamps.finishedAt = 0 /\ terminal
  IN IF executing \/ firstEvent \/ firstToken \/ finished
     THEN [stamps EXCEPT !.now = now,
                         !.executingAt = IF executing THEN now ELSE @,
                         !.firstEventAt = IF firstEvent THEN now ELSE @,
                         !.firstTokenAt = IF firstToken THEN now ELSE @,
                         !.finishedAt = IF finished THEN now ELSE @]
     ELSE stamps

\* One run against a job that is scheduled, runs and finishes, with status
\* reads answered in any order and the job's events delivered.
TimesScope ==
  [runs |-> 1, inflight |-> MaxInflight, subs |-> MaxSubs, events |-> MaxEvents,
   track |-> FALSE, polls |-> 0]

TimesSubmit ==
  /\ SubmitPrompt(<<"h">>, TimesScope)
  /\ UNCHANGED backend
  /\ stamps' = StampsAtSubmit

TimesFirstRead ==
  \E run \in Runs :
    \/ /\ backend.early[run] > 0
       /\ \E outcome \in EarlyReads : FirstReadSettles(run, outcome, TimesScope)
       /\ backend' = ArrivedEarly(run)
       /\ stamps' = StampsAfter(FALSE)
    \/ /\ backend.early[run] = 0
       /\ \E outcome \in LateReads : FirstReadSettles(run, outcome, TimesScope)
       /\ UNCHANGED backend
       /\ stamps' = StampsAfter(TRUE)

TimesEarlyRead ==
  \E run \in Runs :
    /\ backend.early[run] > 0
    /\ \E outcome \in EarlyReads : TickReadSettles(run, outcome, TimesScope)
    /\ backend' = ArrivedEarly(run)
    /\ stamps' = StampsAfter(FALSE)

TimesLateRead ==
  \E run \in Runs :
    /\ inflight[run] > backend.early[run]
    /\ \E outcome \in LateReads : TickReadSettles(run, outcome, TimesScope)
    /\ UNCHANGED backend
    /\ stamps' = StampsAfter(TRUE)

TimesEventsResponse ==
  /\ \E s \in DOMAIN subs, code \in {"200", "204"} : EventsResponse(s, code, TimesScope)
  /\ UNCHANGED <<backend, stamps>>

TimesEventsBody ==
  /\ \E s \in DOMAIN subs :
       /\ Awaiting(s, {"body"})
       /\ \E body \in BackendBodies(subs[s].job, subs[s].lastSeqId, TimesScope) :
            EventsBody(s, body, TimesScope)
  /\ UNCHANGED backend
  /\ stamps' = StampsAfter(FALSE)

NextTimes ==
  \/ TimesSubmit
  \/ JobFinishes
  \/ LiveCreate
  \/ TimesFirstRead
  \/ LiveTick
  \/ TimesEarlyRead
  \/ TimesLateRead
  \/ TimesEventsResponse
  \/ TimesEventsBody
  \/ LiveAbortSettles

SpecTimes == Init /\ [][NextTimes]_vars

\* The timestamps in the order of the claim.
StampNames == <<"submittedAt", "executingAt", "firstEventAt", "firstTokenAt", "finishedAt">>

runFields == <<jobId, status, error, events, tokenEvents, messages, timers, subs>>

\* C37: once a later run was started, the settling of an earlier run's job
\* creation or status read, and a response or body of an earlier run's
\* subscription, changes none of jobId, status, error, event log, token
\* count and transcript, and starts no timer and no subscription.
C37_RunIsolation ==
  [][\A run \in Runs :
       run < nruns =>
         /\ \A outcome \in ControllerCreates :
              CreateSettles(run, outcome) => UNCHANGED runFields
         /\ \A outcome \in ControllerReads :
              (\/ FirstReadSettles(run, outcome, RunsScope)
               \/ TickReadSettles(run, outcome, RunsScope)) => UNCHANGED runFields]_vars

\* C38: terminal run states are absorbing.  Within one run (no step of
\* submitPrompt, and no reset, the only step that writes idle) a step taken
\* while the status is success or error leaves the status as it is and opens
\* no Subscription, whatever status read settles in that step.
C38_TerminalAbsorbing ==
  [][(/\ status \in {"success", "error"}
      /\ nruns' = nruns
      /\ status' # "idle") => (status' = status /\ Len(subs') = Len(subs))]_vars

\* What a body holds for the decoder to turn into events: the records of a
\* JSON array or of the array a JSON object wraps, one for any other JSON
\* value, the frames of an SSE text, one for other text that is not blank.
RecordCount(body) ==
  IF body.form = "json"
  THEN LET v == body.value
           objects(items) == Len(SelectSeq(items, LAMBDA item : item.t = "object"))
       IN IF v.t = "array" THEN objects(v.items)
          ELSE IF v.t = "object" /\ Wrapped(v) # << >> THEN objects(Wrapped(v)[1].items)
          ELSE 1
  ELSE LET trimmed == TrimLines(body.lines)
       IN IF trimmed = << >> THEN 0
          ELSE IF IsSseText(trimmed) THEN Len(parseSseText(trimmed))
          ELSE 1

IsRecordList(v) == v.t = "array" \/ (v.t = "object" /\ Wrapped(v) # << >>)

\* C39: a decoded body has given at most as many events as it holds records
\* or frames, and a body that parsed as a JSON array, or as an object that
\* wraps one, has given no event built from the body as a whole.
C39_OneDecodePath ==
  \A s \in DOMAIN subs : \A i \in DOMAIN decodes[s] :
    LET d == decodes[s][i]
    IN /\ Len(d.events) <= RecordCount(d.body)
       /\ (d.body.form = "json" /\ IsRecordList(d.body.value)) =>
            \A n \in DOMAIN d.events : d.events[n] # RecordEvent(d.body.value, JNull)

=============================================================================
